---- MODULE Spec2Model ----
(***************************************************************************)
(* Model of lapce-ui/src/settings.rs: the settings panel's category page   *)
(* (LapceSettings), its rows (LapceSettingsItem) with the debounced        *)
(* write-back of a changed value, the single-line keypress handler         *)
(* (LapceSettingsItemKeypress), the panel that switches between the pages  *)
(* (LapceSettingsPanel) and the page of a theme section (ThemeSettings).   *)
(*                                                                         *)
(* Strings are Rust Strings: sequences of UTF-8 bytes.  Offsets are byte   *)
(* offsets, counted from 0 as in the source; Sequences are 1-based, so     *)
(* byte offset i names the element s[i+1].                                 *)
(***************************************************************************)
EXTENDS Integers, Sequences, FiniteSets, TLC

VARIABLES
    \* LapceSettingsItemKeypress
    kp_input,       \* input: String
    kp_cursor,      \* cursor: usize
    kp_panicked,    \* a String method panicked inside the last operation
    kp_last,        \* the last operation, its argument, the state before it, its result
    \* LapceSettings (the "editor" category page) and its LapceSettingsItem rows
    children,       \* LapceSettings.children: Vec of rows
    config,         \* data.config: the configuration snapshot
    value_docs,     \* data.main_split.value_docs: name -> embedded editor document
    queue,          \* commands submitted to the page itself, not yet delivered
    timers,         \* timer tokens requested and not yet fired
    burst,          \* history, per row: the edits since the last commit and that commit
    last,           \* history: the last event, the commands it submitted, what it did
    \* LapceSettingsPanel
    panel,          \* the panel's fields: active, switcher_rect, content_rect, ids
    tab,            \* LapceTabData: focus, focus_area, main_split.{active_tab, active, editor tab}
    plast,          \* history: the last pass over the panel and what it did
    \* ThemeSettings (the "theme.base" page)
    theme,          \* the page's fields: kind, inputs, keys, text_layouts, changed_rects, ..
    theme_config,   \* data.config: color, theme, default_theme of the section
    theme_docs,     \* data.main_split.value_docs: name -> text of an input's document
    theme_queue,    \* InitChildren commands submitted to the page, not yet delivered
    tlast           \* history: the last pass over the page and what it did

kpvars == <<kp_input, kp_cursor, kp_panicked, kp_last>>
rowvars == <<children, config, value_docs, queue, timers, burst, last>>
panelvars == <<panel, tab, plast>>
themevars == <<theme, theme_config, theme_docs, theme_queue, tlast>>
vars == <<kp_input, kp_cursor, kp_panicked, kp_last,
          children, config, value_docs, queue, timers, burst, last,
          panel, tab, plast,
          theme, theme_config, theme_docs, theme_queue, tlast>>

(***************************************************************************)
(* Bounds of the model.                                                    *)
(***************************************************************************)
\* longest buffer, in bytes
MaxLen == 4
\* number of timer tokens in use at once (pending, or held by a row)
MaxToken == 2
\* the count of a row's edits since its last commit stops here
MaxBurst == 2

\* most InitChildren commands in flight
MaxQueue == 1
\* longest text of a row's embedded editor document, in bytes
MaxDocLen == 3
\* how many times the configuration is reloaded
MaxReloads == 2

(***************************************************************************)
(* UTF-8 strings.                                                          *)
(***************************************************************************)
Min(a, b) == IF a < b THEN a ELSE b
Max(a, b) == IF a > b THEN a ELSE b

\* "5", "1", "3", "a" and the two-byte "e with acute accent" (U+00E9)
Str5 == <<53>>
Str13 == <<49, 51>>
Str135 == <<49, 51, 53>>
StrA == <<97>>
StrEacute == <<195, 169>>

\* a UTF-8 continuation byte, 10xxxxxx
IsContinuation(b) == b >= 128 /\ b < 192

\* the byte length of the character a lead byte starts
CharLen(b) == IF b < 128 THEN 1 ELSE IF b < 224 THEN 2 ELSE IF b < 240 THEN 3 ELSE 4

\* str::is_char_boundary
IsCharBoundary(s, idx) ==
    \/ idx = 0
    \/ idx = Len(s)
    \/ idx > 0 /\ idx < Len(s) /\ ~IsContinuation(s[idx + 1])

\* String::insert_str: panics unless idx is a char boundary of s
InsertStrPanics(s, idx) == ~IsCharBoundary(s, idx)
InsertStr(s, idx, c) == SubSeq(s, 1, idx) \o c \o SubSeq(s, idx + 1, Len(s))

\* String::remove: removes the char that starts at byte idx;
\* panics when idx >= len or idx is not a char boundary
RemovePanics(s, idx) == idx >= Len(s) \/ ~IsCharBoundary(s, idx)
Remove(s, idx) == SubSeq(s, 1, idx) \o SubSeq(s, idx + CharLen(s[idx + 1]) + 1, Len(s))

\* the characters typed or pasted in the model
Chars == {Str5, StrA, StrEacute}

\* the valid UTF-8 strings of at most n bytes over Chars
RECURSIVE StringsUpTo(_)
StringsUpTo(n) ==
    IF n = 0 THEN {<<>>}
    ELSE LET shorter == StringsUpTo(n - 1)
         IN  shorter \cup {t \in {s \o c : s \in shorter, c \in Chars} : Len(t) <= n}

(***************************************************************************)
(* LapceSettingsItemKeypress: receive_char and run_command.                *)
(* Each operator maps the state [input, cursor] to                         *)
(* [input, cursor, panicked, executed].                                    *)
(***************************************************************************)
KpResult(input, cursor, panicked, executed) ==
    [input |-> input, cursor |-> cursor, panicked |-> panicked, executed |-> executed]

\* receive_char has no return value; executed is reported as "Yes"
ReceiveChar(input, cursor, c) ==
    IF InsertStrPanics(input, cursor)
    THEN KpResult(input, cursor, TRUE, "Yes")
    ELSE KpResult(InsertStr(input, cursor, c), cursor + Len(c), FALSE, "Yes")

\* a move right that does not clamp
MoveRightUnclamped(input, cursor) == cursor + 1

MoveRightClamped(input, cursor) ==
    IF cursor + 1 > Len(input) THEN Len(input) ELSE cursor + 1

MoveRight(input, cursor) ==
    KpResult(input, MoveRightClamped(input, cursor), FALSE, "Yes")

MoveLeft(input, cursor) ==
    IF cursor = 0
    THEN KpResult(input, cursor, FALSE, "Yes")
    ELSE KpResult(input, cursor - 1, FALSE, "Yes")

DeleteForward(input, cursor) ==
    IF cursor = 0
    THEN KpResult(input, cursor, FALSE, "Yes")
    ELSE IF RemovePanics(input, cursor - 1)
         THEN KpResult(input, cursor, TRUE, "Yes")
         ELSE KpResult(Remove(input, cursor - 1), cursor - 1, FALSE, "Yes")

\* the commands of the model: [kind, cmd]
MoveCommands == {"Right", "Left", "Up"}
EditCommands == {"DeleteForward", "DeleteBackward"}
KpCommands ==
    {[kind |-> "Move", cmd |-> m] : m \in MoveCommands}
        \cup {[kind |-> "Edit", cmd |-> e] : e \in EditCommands}
        \cup {[kind |-> "Focus", cmd |-> "SplitVertical"]}

\* a run_command that reports every command as executed
RunCommandClaimsAll(input, cursor, command) ==
    IF command.kind = "Move"
    THEN IF command.cmd = "Right" THEN MoveRight(input, cursor)
         ELSE IF command.cmd = "Left" THEN MoveLeft(input, cursor)
         ELSE KpResult(input, cursor, FALSE, "Yes")
    ELSE IF command.kind = "Edit" /\ command.cmd = "DeleteForward"
         THEN DeleteForward(input, cursor)
         ELSE KpResult(input, cursor, FALSE, "Yes")

RunCommand(input, cursor, command) ==
    IF command.kind = "Move"
    THEN IF command.cmd = "Right" THEN MoveRight(input, cursor)
         ELSE IF command.cmd = "Left" THEN MoveLeft(input, cursor)
         ELSE KpResult(input, cursor, FALSE, "No")
    ELSE IF command.kind = "Edit" /\ command.cmd = "DeleteForward"
         THEN DeleteForward(input, cursor)
         ELSE KpResult(input, cursor, FALSE, "No")

(***************************************************************************)
(* The keypress handler on its own: any valid buffer and cursor, then any  *)
(* sequence of receive_char and run_command.                               *)
(***************************************************************************)
\* the strings receive_char is given: one character, or two at once
InsertStrings == Chars \cup {StrA \o Str5}

KpApply(op, arg, r) ==
    /\ kp_input' = r.input
    /\ kp_cursor' = r.cursor
    /\ kp_panicked' = r.panicked
    /\ kp_last' = [op |-> op, arg |-> arg, input |-> kp_input, cursor |-> kp_cursor,
                   executed |-> r.executed]

KpReceiveChar(c) ==
    /\ ~kp_panicked
    /\ Len(kp_input) + Len(c) <= MaxLen
    /\ KpApply("receive_char", c, ReceiveChar(kp_input, kp_cursor, c))
    /\ UNCHANGED rowvars
    /\ UNCHANGED <<panelvars, themevars>>

KpRunCommand(command) ==
    /\ ~kp_panicked
    /\ KpApply("run_command", command, RunCommand(kp_input, kp_cursor, command))
    /\ UNCHANGED rowvars
    /\ UNCHANGED <<panelvars, themevars>>

(***************************************************************************)
(* Configuration values (serde_json::Value) and the snapshot.              *)
(***************************************************************************)
Number(n) == [t |-> "Number", n |-> n]
Bool(b) == [t |-> "Bool", b |-> b]
String(s) == [t |-> "String", s |-> s]
Null == [t |-> "Null"]
\* Value::Array and Value::Object, their contents left out: t is "Array" or "Object"
Opaque(t) == [t |-> t]

\* i64's Display: the decimal digits, most significant first
RECURSIVE Digits(_)
Digits(n) == IF n < 10 THEN <<48 + n>> ELSE Digits(n \div 10) \o <<48 + (n % 10)>>

\* the text new() and value() give a value: Some(string) for a number or a string
ValueString(value) ==
    IF value.t = "Number" THEN [some |-> TRUE, s |-> Digits(value.n)]
    ELSE IF value.t = "String" THEN [some |-> TRUE, s |-> value.s]
    ELSE [some |-> FALSE]

\* EditorConfig::FIELDS and DESCS; a field name is its words and separators
EditorFields == << <<"font", "_", "size">>, <<"show", "_", "whitespace">> >>
EditorDescs == <<"Set the editor font size", "Show all whitespace">>

\* field.replace('_', "-")
ReplaceUnderscore(field) == [i \in DOMAIN field |-> IF field[i] = "_" THEN "-" ELSE field[i]]

FontSize == <<"font", "-", "size">>
ShowWhitespace == <<"show", "-", "whitespace">>

\* into_settings_map(&data.config.editor): field name -> value
EditorSettings == (FontSize :> Number(13)) @@ (ShowWhitespace :> Bool(FALSE))

(***************************************************************************)
(* LapceSettingsItem.                                                      *)
(***************************************************************************)
\* TimerToken::INVALID
InvalidToken == 0
\* LapceSettingsItem::new: padding, checkbox_width, input_max_width
Padding == 10
CheckboxWidth == 20
InputMaxWidth == 500
\* the text measures the layouts report: line heights and the advance of a character
NameHeight == 24
DescHeight == 21
ValueHeight == 20
CharWidth == 8

\* what the name and the description are wrapped in short of the row's width
TextInset == 30
\* an empty cache slot, and a text layout built for a max_width
NoText == [some |-> FALSE, max_width |-> 0]
TextLayout(max_width) == [some |-> TRUE, max_width |-> max_width]

ItemNew(kind, key, desc, value) ==
    [kind |-> kind, name |-> key, desc |-> desc, value |-> value,
     width |-> 0, cursor |-> 0, input |-> <<>>,
     value_changed |-> FALSE, last_idle_timer |-> InvalidToken,
     name_text |-> NoText, desc_text |-> NoText, value_text |-> "None",
     input_widget |-> ValueString(value).some]

\* the document new() registers for a number or string row, loaded with its text
ItemNewDoc(value) ==
    [kind |-> IF value.t = "Number" THEN "Integer" ELSE "String",
     text |-> ValueString(value).s]

\* name(), desc(): fill the cache when it is empty
ItemName(self) ==
    IF self.name_text.some THEN self
    ELSE [self EXCEPT !.name_text = TextLayout(self.width - TextInset)]
\* desc(): a checkbox row gives up the checkbox's width
DescMaxWidth(self) ==
    (IF self.value.t = "Bool" THEN self.width - CheckboxWidth ELSE self.width) - TextInset
ItemDesc(self) ==
    IF self.desc_text.some THEN self
    ELSE [self EXCEPT !.desc_text = TextLayout(DescMaxWidth(self))]

\* value(): on a miss, build the value text and, for a number or string, set input
ItemValue(self) ==
    IF self.value_text # "None" THEN self
    ELSE IF ValueString(self.value).some
         THEN [self EXCEPT !.input = ValueString(self.value).s, !.value_text = "SomeText"]
         ELSE [self EXCEPT !.value_text = "SomeNone"]

ClearTextLayoutCache(self) ==
    [self EXCEPT !.name_text = NoText, !.desc_text = NoText, !.value_text = "None"]

\* kurbo Rect::contains: x0 <= x < x1 and y0 <= y < y1
Contains(rect, pos) ==
    /\ pos[1] >= rect.x0 /\ pos[1] < rect.x1
    /\ pos[2] >= rect.y0 /\ pos[2] < rect.y1

\* Size(min(ctx.size().width, input_max_width), text height) at (0, height), inflate(0, 8)
ValueRect(self) ==
    LET height == NameHeight + DescHeight + Padding * 2 + Padding
    IN  [x0 |-> 0, y0 |-> height - 8,
         x1 |-> Min(self.width, InputMaxWidth), y1 |-> height + ValueHeight + 8]

\* Size(checkbox_width, checkbox_width) at (0, name height + padding * 2 + 4)
CheckboxRect(self) ==
    LET y == NameHeight + Padding * 2 + 4
    IN  [x0 |-> 0, y0 |-> y, x1 |-> CheckboxWidth, y1 |-> y + CheckboxWidth]

\* hit_test_point given the pointer position without the 8 px inset
HitTestPointNoInset(text, x) ==
    IF x + 8 <= 0 THEN 0 ELSE Min(Len(text), (2 * (x + 8) + CharWidth) \div (2 * CharWidth))

\* TextLayout::hit_test_point on one line of text: the nearest character boundary
HitTestPoint(text, x) ==
    IF x <= 0 THEN 0 ELSE Min(Len(text), (2 * x + CharWidth) \div (2 * CharWidth))

ItemResult(item, cmds, armed) == [item |-> item, cmds |-> cmds, armed |-> armed]

UpdateSettingsFile(kind, name, value) ==
    [cmd |-> "UpdateSettingsFile", kind |-> kind, name |-> name, value |-> value]

\* a checkbox hit that stores the value it found
ToggledValueKept(checked) == Bool(checked)

\* the value a checkbox hit stores
ToggledValue(checked) == Bool(~checked)

\* a MouseDown arm that requests the timer and does not keep its token
ItemMouseDownDropsToken(self, pos, token) ==
    LET s1 == ItemValue(self)
    IN  IF s1.value_text = "SomeText"
        THEN ItemResult(ItemDesc(ItemName(s1)), <<>>, FALSE)
        ELSE IF s1.value.t = "Bool"
             THEN LET s2 == ItemName(s1)
                  IN  IF Contains(CheckboxRect(s2), pos)
                      THEN ItemResult([s2 EXCEPT !.value = ToggledValue(s1.value.b),
                                                 !.value_changed = TRUE],
                                      <<>>, TRUE)
                      ELSE ItemResult(s2, <<>>, FALSE)
             ELSE ItemResult(s1, <<>>, FALSE)

\* a MouseDown arm that takes a click into the value text for an edit of the value
ItemMouseDownMarksText(self, pos, token) ==
    LET input == self.input
        s1 == ItemValue(self)
    IN  IF s1.value_text = "SomeText"
        THEN LET s2 == ItemDesc(ItemName(s1))
             IN  IF Contains(ValueRect(s2), pos)
                 THEN ItemResult([s2 EXCEPT !.cursor = HitTestPoint(input, pos[1] - 8),
                                            !.value_changed = TRUE,
                                            !.last_idle_timer = token],
                                 <<>>, TRUE)
                 ELSE ItemResult(s2, <<>>, FALSE)
        ELSE IF s1.value.t = "Bool"
             THEN LET s2 == ItemName(s1)
                  IN  IF Contains(CheckboxRect(s2), pos)
                      THEN ItemResult([s2 EXCEPT !.value = ToggledValue(s1.value.b),
                                                 !.value_changed = TRUE,
                                                 !.last_idle_timer = token],
                                      <<>>, TRUE)
                      ELSE ItemResult(s2, <<>>, FALSE)
             ELSE ItemResult(s1, <<>>, FALSE)

\* a MouseDown arm without the two contains() tests
ItemMouseDownNoHitTest(self, pos, token) ==
    LET input == self.input
        s1 == ItemValue(self)
    IN  IF s1.value_text = "SomeText"
        THEN ItemResult([ItemDesc(ItemName(s1)) EXCEPT
                            !.cursor = HitTestPoint(input, pos[1] - 8)],
                        <<>>, FALSE)
        ELSE IF s1.value.t = "Bool"
             THEN ItemResult([ItemName(s1) EXCEPT !.value = ToggledValue(s1.value.b),
                                                  !.value_changed = TRUE,
                                                  !.last_idle_timer = token],
                             <<>>, TRUE)
             ELSE ItemResult(s1, <<>>, FALSE)

\* a MouseDown arm that takes every row without a value text for a checkbox
ItemMouseDownTogglesAny(self, pos, token) ==
    LET input == self.input
        s1 == ItemValue(self)
    IN  IF s1.value_text = "SomeText"
        THEN LET s2 == ItemDesc(ItemName(s1))
             IN  IF Contains(ValueRect(s2), pos)
                 THEN ItemResult([s2 EXCEPT !.cursor = HitTestPoint(input, pos[1] - 8)],
                                 <<>>, FALSE)
                 ELSE ItemResult(s2, <<>>, FALSE)
        ELSE LET s2 == ItemName(s1)
             IN  IF Contains(CheckboxRect(s2), pos)
                 THEN ItemResult([s2 EXCEPT !.value =
                                        ToggledValue(s1.value.t = "Bool" /\ s1.value.b),
                                            !.value_changed = TRUE,
                                            !.last_idle_timer = token],
                                 <<>>, TRUE)
                 ELSE ItemResult(s2, <<>>, FALSE)

\* event(), Event::MouseDown
ItemMouseDown(self, pos, token) ==
    LET input == self.input
        s1 == ItemValue(self)
    IN  IF s1.value_text = "SomeText"
        THEN LET s2 == ItemDesc(ItemName(s1))
             IN  IF Contains(ValueRect(s2), pos)
                 THEN ItemResult([s2 EXCEPT !.cursor = HitTestPoint(input, pos[1] - 8)],
                                 <<>>, FALSE)
                 ELSE ItemResult(s2, <<>>, FALSE)
        ELSE IF s1.value.t = "Bool"
             THEN LET s2 == ItemName(s1)
                  IN  IF Contains(CheckboxRect(s2), pos)
                      THEN ItemResult([s2 EXCEPT !.value = ToggledValue(s1.value.b),
                                                 !.value_changed = TRUE,
                                                 !.last_idle_timer = token],
                                      <<>>, TRUE)
                      ELSE ItemResult(s2, <<>>, FALSE)
             ELSE ItemResult(s1, <<>>, FALSE)

\* a guard that takes any timer for the row's own
TimerMatchesAnyToken(self, token) == self.value_changed

\* the guard of the Event::Timer arm
TimerMatches(self, token) == self.value_changed /\ token = self.last_idle_timer

\* a Timer arm that drops the dirty flag on a timer that is not the row's own
ItemTimerClearsOnStale(self, token) ==
    IF TimerMatches(self, token)
    THEN ItemResult([self EXCEPT !.value_changed = FALSE],
                    <<UpdateSettingsFile(self.kind, self.name, self.value)>>, FALSE)
    ELSE ItemResult([self EXCEPT !.value_changed = FALSE], <<>>, FALSE)

\* a Timer arm that submits the command and leaves the dirty flag set
ItemTimerKeepsDirty(self, token) ==
    IF TimerMatches(self, token)
    THEN ItemResult(self, <<UpdateSettingsFile(self.kind, self.name, self.value)>>, FALSE)
    ELSE ItemResult(self, <<>>, FALSE)

\* event(), Event::Timer
ItemTimer(self, token) ==
    IF TimerMatches(self, token)
    THEN ItemResult([self EXCEPT !.value_changed = FALSE],
                    <<UpdateSettingsFile(self.kind, self.name, self.value)>>, FALSE)
    ELSE ItemResult(self, <<>>, FALSE)

\* event(): ev is [type, row, pos, token, c]; i is this row's index
ItemEvent(self, i, ev, token) ==
    IF ev.type = "MouseDown"
    THEN IF ev.row = i THEN ItemMouseDown(self, ev.pos, token)
         ELSE ItemResult(self, <<>>, FALSE)
    ELSE IF ev.type = "Timer" THEN ItemTimer(self, ev.token)
    ELSE ItemResult(self, <<>>, FALSE)

\* a layout() that stores the new width and keeps the text built for the old one
ItemLayoutKeepsCache(self, width) ==
    ItemValue(ItemDesc(ItemName([self EXCEPT !.width = width])))

\* layout()
ItemLayout(self, width) ==
    LET s1 == IF width # self.width
              THEN ClearTextLayoutCache([self EXCEPT !.width = width])
              ELSE self
    IN  ItemValue(ItemDesc(ItemName(s1)))

\* layout(): the height of the size it returns, the value text counted when the
\* row has one
ItemHeight(self) ==
    NameHeight + DescHeight + Padding * 3
        + (IF ValueString(self.value).some THEN ValueHeight + Padding * 2 ELSE 0)

\* an update() that also forgets the pending commit on a new configuration id
ItemUpdateDropsPending(self, id_changed) ==
    IF id_changed
    THEN [ClearTextLayoutCache(self) EXCEPT !.value_changed = FALSE,
                                            !.last_idle_timer = InvalidToken]
    ELSE self

\* update(): a new configuration id drops the cached text layouts
ItemUpdate(self, id_changed) ==
    IF id_changed THEN ClearTextLayoutCache(self) ELSE self

\* paint(): draws the name and the description, which fills their caches
ItemPaint(self) == ItemDesc(ItemName(self))

(***************************************************************************)
(* LapceSettings: the "editor" category page.                              *)
(***************************************************************************)
Ev(type, row, pos, token, c) ==
    [type |-> type, row |-> row, pos |-> pos, token |-> token, c |-> c]

DocName(item) == <<item.kind, item.name>>

\* a build that leaves out the fields the map does not hold
NewRowsSkipMissing(fields, descs, settings) ==
    LET Held(i) == ReplaceUnderscore(fields[i]) \in DOMAIN settings
        idx == SelectSeq([i \in 1..Min(Len(fields), Len(descs)) |-> i], Held)
    IN  [k \in DOMAIN idx |->
            ItemNew("editor", ReplaceUnderscore(fields[idx[k]]), descs[idx[k]],
                    settings[ReplaceUnderscore(fields[idx[k]])])]

\* the rows update_children pushes: one per (field, desc) pair of the zip, in order
NewRows(fields, descs, settings) ==
    [i \in 1..Min(Len(fields), Len(descs)) |->
        ItemNew("editor", ReplaceUnderscore(fields[i]), descs[i],
                settings[ReplaceUnderscore(fields[i])])]

\* Vec::clear
Clear(rows) == SubSeq(rows, 1, 0)

\* an update_children that pushes onto the rows it finds
UpdateChildrenKeepsRows(rows, fields, descs, settings) ==
    rows \o NewRows(fields, descs, settings)

\* update_children: self.children.clear(), then the pushes
UpdateChildren(rows, fields, descs, settings) ==
    Clear(rows) \o NewRows(fields, descs, settings)

\* a build that leaves out the fields the map does not hold
UpdateChildrenSkipsMissing(rows, fields, descs, settings) ==
    [panicked |-> FALSE, rows |-> NewRowsSkipMissing(fields, descs, settings)]

\* update_children with its failure: settings.remove(&field).unwrap() panics for a
\* field of the zip that the map does not hold, or holds no more because an earlier
\* field of the zip took it
UpdateChildrenOrPanic(rows, fields, descs, settings) ==
    LET Key(i) == ReplaceUnderscore(fields[i])
        panics == \E i \in 1..Min(Len(fields), Len(descs)) :
                      \/ Key(i) \notin DOMAIN settings
                      \/ \E j \in 1..(i - 1) : Key(j) = Key(i)
    IN  IF panics THEN [panicked |-> TRUE, rows |-> Clear(rows)]
        ELSE [panicked |-> FALSE, rows |-> UpdateChildren(rows, fields, descs, settings)]

\* the documents the rows of update_children insert into value_docs, in row order
RECURSIVE UpdateChildrenDocs(_, _, _)
UpdateChildrenDocs(rows, n, docs) ==
    IF n = 0 THEN docs
    ELSE LET before == UpdateChildrenDocs(rows, n - 1, docs)
         IN  IF rows[n].input_widget
             THEN (DocName(rows[n]) :> ItemNewDoc(rows[n].value)) @@ before
             ELSE before

\* the embedded editor of a row takes a typed character at the clicked offset
EditorReceiveChar(doc, offset, c) ==
    [doc EXCEPT !.text = ReceiveChar(doc.text, offset, c).input]

RECURSIVE ConcatCmds(_, _)
ConcatCmds(res, n) == IF n = 0 THEN <<>> ELSE ConcatCmds(res, n - 1) \o res[n].cmds

\* the history of a row with no edit yet
NoBurst == [commits |-> 0, edits |-> 0, token |-> InvalidToken, value |-> Null]

\* the history of a row after one event: an edit opens or extends the burst,
\* a commit closes it and records the value sent and the token that fired
BurstOf(b, r, ev) ==
    IF r.armed
    THEN [b EXCEPT !.edits = Min(IF b.commits > 0 THEN 1 ELSE b.edits + 1, MaxBurst),
                   !.commits = 0]
    ELSE IF r.cmds # <<>>
         THEN [b EXCEPT !.commits = Min(b.commits + Len(r.cmds), 2),
                        !.value = r.cmds[1].value, !.token = ev.token]
         ELSE b

\* the tokens in use: pending, or the last one a row armed
LiveTokens == timers \cup {children[i].last_idle_timer : i \in DOMAIN children}
FreeTokens == (1..MaxToken) \ LiveTokens

\* ctx.request_timer: TimerToken::next() is a token no timer in use has
RequestTimerToken == IF FreeTokens = {} THEN InvalidToken
                     ELSE CHOOSE t \in FreeTokens : \A u \in FreeTokens : t <= u

\* event(): every child gets the event; an empty page then builds its rows.
\* A build that panics ends the program: no pass follows it.
SettingsEvent(ev) ==
    LET token == RequestTimerToken
        res == [i \in DOMAIN children |-> ItemEvent(children[i], i, ev, token)]
        n == Len(children)
        armed == \E i \in DOMAIN children : res[i].armed
        emitted == ConcatCmds(res, n)
        r == UpdateChildrenOrPanic(children, EditorFields, EditorDescs, config.editor)
        panics == n = 0 /\ r.panicked
        built == r.rows
    IN  /\ ~last.panicked
        /\ children' = IF n = 0 THEN built ELSE [i \in DOMAIN children |-> res[i].item]
        /\ value_docs' =
              IF n = 0 THEN UpdateChildrenDocs(built, Len(built), value_docs)
              ELSE IF ev.type = "KeyDown" /\ ev.row \in DOMAIN children
                      /\ children[ev.row].input_widget
                   THEN [value_docs EXCEPT ![DocName(children[ev.row])] =
                            EditorReceiveChar(@, children[ev.row].cursor, ev.c)]
                   ELSE value_docs
        /\ timers' = (IF armed THEN timers \cup {token} ELSE timers)
                        \ (IF ev.type = "Timer" THEN {ev.token} ELSE {})
        /\ burst' = IF n = 0 THEN [i \in DOMAIN built |-> NoBurst]
                    ELSE [i \in DOMAIN children |-> BurstOf(burst[i], res[i], ev)]
        /\ last' = [ev |-> ev, emitted |-> emitted, armed |-> armed,
                    built |-> n = 0 /\ ~panics, panicked |-> panics]

\* the pointer positions of the model, in a row's coordinates
Points == {<<5, 50>>, <<8, 80>>, <<450, 80>>}
\* the widths a layout pass gives the rows
Widths == {400, 600}
\* the height of the constraint of a layout pass
Heights == {300}
\* the characters typed into a row's editor
TypedChars == {Str5}

\* a MouseDown that stores a toggled checkbox value in the snapshot as well
MouseDownWritesConfig(i, pos) ==
    /\ FreeTokens # {}
    /\ i # 0 => children[i].width # 0
    /\ SettingsEvent(Ev("MouseDown", i, pos, InvalidToken, <<>>))
    /\ config' = IF i # 0 /\ children'[i].value # children[i].value
                 THEN [config EXCEPT !.editor[children[i].name] = children'[i].value]
                 ELSE config
    /\ UNCHANGED queue
    /\ UNCHANGED kpvars
    /\ UNCHANGED <<panelvars, themevars>>

\* Event::MouseDown, routed to the laid-out row under the pointer (row 0: to none)
MouseDown(i, pos) ==
    /\ FreeTokens # {}
    /\ i # 0 => children[i].width # 0
    /\ SettingsEvent(Ev("MouseDown", i, pos, InvalidToken, <<>>))
    /\ UNCHANGED <<config, queue>>
    /\ UNCHANGED kpvars
    /\ UNCHANGED <<panelvars, themevars>>

\* Event::KeyDown, routed to the row whose editor has the focus (row 0: to none)
KeyDown(i, c) ==
    /\ i # 0 => /\ children[i].input_widget
                /\ Len(value_docs[DocName(children[i])].text) + Len(c) <= MaxDocLen
    /\ SettingsEvent(Ev("KeyDown", i, <<0, 0>>, InvalidToken, c))
    /\ UNCHANGED <<config, queue>>
    /\ UNCHANGED kpvars
    /\ UNCHANGED <<panelvars, themevars>>

\* Event::MouseMove
MouseMove ==
    /\ SettingsEvent(Ev("MouseMove", 0, <<0, 0>>, InvalidToken, <<>>))
    /\ UNCHANGED <<config, queue>>
    /\ UNCHANGED kpvars
    /\ UNCHANGED <<panelvars, themevars>>

\* Event::Timer(token) for a pending token, or once more for a token a row still holds
TimerFire(token) ==
    /\ token \in LiveTokens
    /\ SettingsEvent(Ev("Timer", 0, <<0, 0>>, token, <<>>))
    /\ UNCHANGED <<config, queue>>
    /\ UNCHANGED kpvars
    /\ UNCHANGED <<panelvars, themevars>>

\* Event::Command(InitChildren), delivered from the queue
InitChildren ==
    /\ queue # <<>>
    /\ queue' = Tail(queue)
    /\ SettingsEvent(Ev("InitChildren", 0, <<0, 0>>, InvalidToken, <<>>))
    /\ UNCHANGED config
    /\ UNCHANGED kpvars
    /\ UNCHANGED <<panelvars, themevars>>

\* LapcePadding::new((10.0, 10.0), ..) around a row
RowPadding == 10

\* the height of a child of the page: the row inside its padding
RowHeight(self) == ItemHeight(self) + 2 * RowPadding

\* a y that starts one row's padding down
RECURSIVE StackYFromPadding(_, _)
StackYFromPadding(rows, n) ==
    IF n = 0 THEN RowPadding ELSE StackYFromPadding(rows, n - 1) + RowHeight(rows[n])

\* layout(): y after the first n children, y += size.height for each
RECURSIVE StackY(_, _)
StackY(rows, n) == IF n = 0 THEN 0 ELSE StackY(rows, n - 1) + RowHeight(rows[n])

\* layout() under the constraint (width, height): an empty page asks for
\* InitChildren; child i is laid out and set at (0, y); the size is returned
SettingsLayout(width, height) ==
    /\ ~last.panicked
    /\ children = <<>> => Len(queue) < MaxQueue
    /\ queue' = IF children = <<>> THEN Append(queue, "InitChildren") ELSE queue
    /\ children' = [i \in DOMAIN children |-> ItemLayout(children[i], width)]
    /\ last' = [ev |-> Ev("Layout", 0, <<width, height>>, InvalidToken, <<>>),
                emitted |-> <<>>, armed |-> FALSE, built |-> FALSE, panicked |-> FALSE,
                heights |-> [i \in DOMAIN children |-> RowHeight(children'[i])],
                origins |-> [i \in DOMAIN children |-> StackY(children', i - 1)],
                size |-> <<width, Max(height, StackY(children', Len(children)))>>]
    /\ UNCHANGED <<config, value_docs, timers, burst>>

\* a layout pass on the page alone
Layout(width, height) ==
    /\ SettingsLayout(width, height)
    /\ UNCHANGED kpvars
    /\ UNCHANGED <<panelvars, themevars>>

\* a pass that is not an event: the rows after it, no command, no timer
PageOtherPass(type, rows) ==
    /\ ~last.panicked
    /\ children' = rows
    /\ last' = [ev |-> Ev(type, 0, <<0, 0>>, InvalidToken, <<>>),
                emitted |-> <<>>, armed |-> FALSE, built |-> FALSE, panicked |-> FALSE]
    /\ UNCHANGED <<config, value_docs, queue, timers, burst>>

\* lifecycle(): forwarded to the rows, which keep their fields
PageLifecycle ==
    /\ PageOtherPass("Lifecycle", children)
    /\ UNCHANGED kpvars
    /\ UNCHANGED <<panelvars, themevars>>

\* an update() that drops the rows, for the next event to build them again
PageUpdateClearsRows(id_changed) ==
    /\ PageOtherPass(IF id_changed THEN "UpdateNewConfigId" ELSE "Update", <<>>)
    /\ UNCHANGED kpvars
    /\ UNCHANGED <<panelvars, themevars>>

\* update(), the configuration id changed or not: forwarded to the rows
PageUpdate(id_changed) ==
    /\ PageOtherPass(IF id_changed THEN "UpdateNewConfigId" ELSE "Update",
                     [i \in DOMAIN children |-> ItemUpdate(children[i], id_changed)])
    /\ UNCHANGED kpvars
    /\ UNCHANGED <<panelvars, themevars>>

\* the configuration is loaded again: data.config is a snapshot with a new id,
\* and the update() pass that follows a change of the data sees the new id
ConfigReload(settings) ==
    /\ ~last.panicked
    /\ config.id < MaxReloads
    /\ config' = [id |-> config.id + 1, editor |-> settings]
    /\ children' = [i \in DOMAIN children |-> ItemUpdate(children[i], TRUE)]
    /\ last' = [ev |-> Ev("UpdateNewConfigId", 0, <<0, 0>>, InvalidToken, <<>>),
                emitted |-> <<>>, armed |-> FALSE, built |-> FALSE, panicked |-> FALSE]
    /\ UNCHANGED <<value_docs, queue, timers, burst>>
    /\ UNCHANGED kpvars
    /\ UNCHANGED <<panelvars, themevars>>

\* paint(): forwarded to the rows
PagePaint ==
    /\ PageOtherPass("Paint", [i \in DOMAIN children |-> ItemPaint(children[i])])
    /\ UNCHANGED kpvars
    /\ UNCHANGED <<panelvars, themevars>>

(***************************************************************************)
(* LapceSettingsPanel: the switcher and its six pages.  Page indexes are   *)
(* counted from 0 as in the source.                                        *)
(***************************************************************************)
\* the children of new(), in order
PanelChildren == <<"Core", "UI", "Editor", "Terminal", "Theme", "Keymap">>
PageCount == Len(PanelChildren)
Pages == 0..(PageCount - 1)

SwitcherLineHeight == 40
SwitcherWidth == 150
ContentGap == 20
\* the page ShowSettings selects, and the page ShowKeybindings selects
SettingsPage == 0
KeybindingsPage == 5

\* widget ids: the panel, the editor tab it was made for, other widgets of the tab
PanelWidgetId == "settings_panel"
EditorTabId == "editor_tab"
OtherEditorId == "editor"
OtherTabId == "other_tab"
None == "None"

RectZero == [x0 |-> 0, x1 |-> 0, y0 |-> 0, y1 |-> 0]

\* new()
PanelNew ==
    [active |-> 0, content_rect |-> RectZero, editor_tab_id |-> EditorTabId,
     switcher_line_height |-> SwitcherLineHeight, switcher_rect |-> RectZero,
     widget_id |-> PanelWidgetId]

\* what one call of event() did
PanelResult(self, data, handled, submitted, request_layout, request_focus) ==
    [handled |-> handled, panel |-> self, request_focus |-> request_focus,
     request_layout |-> request_layout, submitted |-> submitted, tab |-> data]

\* f64 `as usize`: negative values saturate to 0
AsUsize(x) == IF x < 0 THEN 0 ELSE x

\* an index taken to the nearest row boundary
SwitcherIndexRounded(self, pos) ==
    AsUsize((pos[2] - self.switcher_rect.y0 + self.switcher_line_height \div 2)
                \div self.switcher_line_height)

\* ((pos.y - switcher_rect.y0) / switcher_line_height).floor() as usize
SwitcherIndex(self, pos) ==
    AsUsize((pos[2] - self.switcher_rect.y0) \div self.switcher_line_height)

\* the positions of the panel among the editor tab's children
PanelPositions(self, editor_tab) ==
    {i - 1 : i \in {j \in DOMAIN editor_tab.children :
                        editor_tab.children[j] = self.widget_id}}

\* a request_focus that leaves the editor tab's active child as it is
RequestFocusKeepsTab(self, data) ==
    [data EXCEPT !.active_tab = self.editor_tab_id,
                 !.focus = self.widget_id,
                 !.focus_area = "Editor"]

\* request_focus()
RequestFocus(self, data) ==
    LET at == PanelPositions(self, data.editor_tab)
        d1 == IF at # {}
              THEN [data EXCEPT !.editor_tab.active = CHOOSE i \in at : \A j \in at : i <= j]
              ELSE data
    IN  [d1 EXCEPT !.active_tab = self.editor_tab_id,
                   !.focus = self.widget_id,
                   !.focus_area = "Editor"]

\* a mouse_down that takes every computed index for a page
PanelMouseDownUnguarded(self, data, pos) ==
    IF Contains(self.switcher_rect, pos)
    THEN LET s1 == [self EXCEPT !.active = SwitcherIndex(self, pos)]
         IN  PanelResult(s1, RequestFocus(s1, data), TRUE, <<>>, TRUE, TRUE)
    ELSE PanelResult(self, data, FALSE, <<>>, FALSE, FALSE)

\* a mouse_down that takes an index past the last page for the last page
PanelMouseDownClamped(self, data, pos) ==
    IF Contains(self.switcher_rect, pos)
    THEN LET s1 == [self EXCEPT !.active = Min(SwitcherIndex(self, pos), PageCount - 1)]
         IN  PanelResult(s1, RequestFocus(s1, data), TRUE, <<>>, TRUE, TRUE)
    ELSE PanelResult(self, data, FALSE, <<>>, FALSE, FALSE)

\* mouse_down()
PanelMouseDown(self, data, pos) ==
    IF Contains(self.switcher_rect, pos)
    THEN LET index == SwitcherIndex(self, pos)
             s1 == IF index < PageCount THEN [self EXCEPT !.active = index] ELSE self
         IN  PanelResult(s1, RequestFocus(s1, data), TRUE, <<>>, index < PageCount, TRUE)
    ELSE PanelResult(self, data, FALSE, <<>>, FALSE, FALSE)

\* a Command submitted with ctx.submit_command
UICommand(cmd, target) == [cmd |-> cmd, target |-> target]

\* a ShowKeybindings arm that selects the page before the last
PanelShowKeybindingsOffByOne(self, data) ==
    PanelResult([self EXCEPT !.active = KeybindingsPage - 1], data,
                FALSE, <<>>, FALSE, TRUE)

\* event(), LapceUICommand::ShowSettings
PanelShowSettings(self, data) ==
    PanelResult([self EXCEPT !.active = SettingsPage], data, FALSE, <<>>, FALSE, TRUE)

\* event(), LapceUICommand::ShowKeybindings
PanelShowKeybindings(self, data) ==
    PanelResult([self EXCEPT !.active = KeybindingsPage], data, FALSE, <<>>, FALSE, TRUE)

\* a Hide arm that submits the command with no editor active too
PanelHideAlways(self, data) ==
    PanelResult(self, data, FALSE,
                <<UICommand("Focus", data.active)>>, FALSE, FALSE)

\* event(), LapceUICommand::Hide
PanelHide(self, data) ==
    IF data.active # None
    THEN PanelResult(self, data, FALSE,
                     <<UICommand("Focus", data.active)>>, FALSE, FALSE)
    ELSE PanelResult(self, data, FALSE, <<>>, FALSE, FALSE)

\* event(), the match on the event
PanelHandle(self, data, ev) ==
    IF ev.type = "KeyDown"
    THEN PanelResult(self, data, ev.focused /\ ev.performed, <<>>, FALSE, FALSE)
    ELSE IF ev.type = "MouseDown"
    THEN PanelMouseDown(self, data, ev.pos)
    ELSE IF ev.type = "LapceCommand"
    THEN PanelResult(self, data, ev.performed, <<>>, FALSE, FALSE)
    ELSE IF ev.type = "UICommand"
    THEN IF ev.cmd = "Focus"
         THEN PanelResult(self, RequestFocus(self, data), TRUE, <<>>, FALSE, TRUE)
         ELSE IF ev.cmd = "ShowSettings" THEN PanelShowSettings(self, data)
         ELSE IF ev.cmd = "ShowKeybindings" THEN PanelShowKeybindings(self, data)
         ELSE IF ev.cmd = "Hide" THEN PanelHide(self, data)
         ELSE PanelResult(self, data, FALSE, <<>>, FALSE, FALSE)
    ELSE PanelResult(self, data, FALSE, <<>>, FALSE, FALSE)

\* druid's Event::should_propagate_to_hidden
ShouldPropagateToHidden(ev) ==
    ev.type \in {"LapceCommand", "UICommand", "Timer", "WindowSize"}

\* a routing that gives every event to the active child only
PanelRouteActiveOnly(self, handled, ev) ==
    IF handled THEN {} ELSE {self.active}

\* event(), after the match: the children the event is passed to
PanelRoute(self, handled, ev) ==
    IF handled THEN {}
    ELSE IF ShouldPropagateToHidden(ev) THEN Pages
    ELSE {self.active}

\* layout(): the rectangles for a size; the content goes to the active child
PanelLayout(self, size) ==
    [self EXCEPT !.content_rect = [x0 |-> 0, x1 |-> size[1], y0 |-> 0, y1 |-> size[2]],
                 !.switcher_rect = [x0 |-> 0, x1 |-> SwitcherWidth,
                                    y0 |-> 0, y1 |-> size[2]]]

\* the constraints layout() gives the active child
ContentSize(self, size) ==
    <<size[1] - (self.switcher_rect.x1 - self.switcher_rect.x0) - ContentGap, size[2]>>

PanelEv(type, pos, cmd, focused, performed) ==
    [cmd |-> cmd, focused |-> focused, performed |-> performed, pos |-> pos, type |-> type]

PanelPass(pass, ev, r, delivered) ==
    [delivered |-> delivered, ev |-> ev, handled |-> r.handled, pass |-> pass,
     request_focus |-> r.request_focus, request_layout |-> r.request_layout,
     submitted |-> r.submitted, was |-> panel.active]

NoEv == PanelEv("none", <<0, 0>>, "none", FALSE, FALSE)

\* event(): the match, then the routing to the children
PanelEvent(ev) ==
    LET r == PanelHandle(panel, tab, ev)
    IN  /\ panel' = r.panel
        /\ tab' = r.tab
        /\ plast' = PanelPass("event", ev, r, PanelRoute(r.panel, r.handled, ev))

\* a pass that changes no field of the panel and is given to `delivered`
PanelOtherPass(pass, self, delivered) ==
    /\ panel' = self
    /\ plast' = PanelPass(pass, NoEv,
                          PanelResult(self, tab, FALSE, <<>>, FALSE, FALSE), delivered)
    /\ UNCHANGED tab

\* the pointer positions, the sizes and the commands of the model
PanelPoints ==
    {<<100, 0>>, <<100, 39>>, <<100, 40>>, <<100, 130>>, <<100, 210>>, <<100, 250>>,
     <<150, 40>>}
PanelSizes == {<<800, 200>>, <<800, 300>>}
UICommands == {"Focus", "ShowSettings", "ShowKeybindings", "Hide", "InitChildren"}
OtherEvents == {"Timer", "WindowSize", "MouseMove", "Wheel"}

\* Event::MouseDown
OnMouseDown(pos) ==
    /\ PanelEvent(PanelEv("MouseDown", pos, "none", FALSE, FALSE))
    /\ UNCHANGED <<kpvars, rowvars, themevars>>

\* Event::KeyDown, the panel focused or not, the key bound to a command or not
OnKeyDown(focused, performed) ==
    /\ PanelEvent(PanelEv("KeyDown", <<0, 0>>, "none", focused, performed))
    /\ UNCHANGED <<kpvars, rowvars, themevars>>

\* Event::Command(LAPCE_COMMAND), executed by the focus data or not
OnLapceCommand(performed) ==
    /\ PanelEvent(PanelEv("LapceCommand", <<0, 0>>, "none", FALSE, performed))
    /\ UNCHANGED <<kpvars, rowvars, themevars>>

\* Event::Command(LAPCE_UI_COMMAND)
OnUICommand(cmd) ==
    /\ PanelEvent(PanelEv("UICommand", <<0, 0>>, cmd, FALSE, FALSE))
    /\ UNCHANGED <<kpvars, rowvars, themevars>>

\* any other event
OnOtherEvent(type) ==
    /\ PanelEvent(PanelEv(type, <<0, 0>>, "none", FALSE, FALSE))
    /\ UNCHANGED <<kpvars, rowvars, themevars>>

\* lifecycle(): every child
OnLifecycle ==
    /\ PanelOtherPass("lifecycle", panel, Pages)
    /\ UNCHANGED <<kpvars, rowvars, themevars>>

\* update(): every child
OnUpdate ==
    /\ PanelOtherPass("update", panel, Pages)
    /\ UNCHANGED <<kpvars, rowvars, themevars>>

\* layout(): children[self.active]
OnLayout(size) ==
    /\ PanelOtherPass("layout", PanelLayout(panel, size), {panel.active})
    /\ UNCHANGED <<kpvars, rowvars, themevars>>

\* paint(): children[self.active]
OnPaint ==
    /\ PanelOtherPass("paint", panel, {panel.active})
    /\ UNCHANGED <<kpvars, rowvars, themevars>>

\* the Editor page among the panel's children
EditorPage == 2
\* the sizes and the switcher positions of a panel whose Editor page is followed
SwitchSizes == {<<800, 300>>}
SwitchPoints == {<<100, 10>>, <<100, 90>>, <<100, 130>>}

\* layout() of the panel; the Editor page is laid out when it is the active child
RoutedLayout(size) ==
    /\ PanelOtherPass("layout", PanelLayout(panel, size), {panel.active})
    /\ IF panel.active = EditorPage
       THEN SettingsLayout(ContentSize(PanelLayout(panel, size), size)[1], size[2])
       ELSE UNCHANGED rowvars
    /\ UNCHANGED <<kpvars, themevars>>

\* Event::MouseDown on the switcher: mouse_down() handles it, no child gets it
SwitcherMouseDown(pos) ==
    /\ Contains(panel.switcher_rect, pos)
    /\ PanelEvent(PanelEv("MouseDown", pos, "none", FALSE, FALSE))
    /\ UNCHANGED <<kpvars, rowvars, themevars>>

\* Event::MouseDown on row i of the content: the active child gets it
ContentMouseDown(i, pos) ==
    /\ panel.switcher_rect # RectZero
    /\ PanelEvent(PanelEv("MouseDown",
                          <<SwitcherWidth + ContentGap + pos[1], pos[2]>>,
                          "none", FALSE, FALSE))
    /\ IF EditorPage \in plast'.delivered
       THEN /\ FreeTokens # {}
            /\ i # 0 => children[i].width # 0
            /\ SettingsEvent(Ev("MouseDown", i, pos, InvalidToken, <<>>))
            /\ UNCHANGED <<config, queue>>
       ELSE i = 0 /\ UNCHANGED rowvars
    /\ UNCHANGED <<kpvars, themevars>>

\* Event::Timer(token): the children the panel passes it to; the timer is spent
RoutedTimer(token) ==
    /\ token \in LiveTokens
    /\ PanelEvent(PanelEv("Timer", <<0, 0>>, "none", FALSE, FALSE))
    /\ IF EditorPage \in plast'.delivered
       THEN /\ SettingsEvent(Ev("Timer", 0, <<0, 0>>, token, <<>>))
            /\ UNCHANGED <<config, queue>>
       ELSE /\ timers' = timers \ {token}
            /\ UNCHANGED <<children, config, value_docs, queue, burst, last>>
    /\ UNCHANGED <<kpvars, themevars>>

\* Event::Command(InitChildren): a command goes to every child
RoutedInitChildren ==
    /\ queue # <<>>
    /\ queue' = Tail(queue)
    /\ PanelEvent(PanelEv("UICommand", <<0, 0>>, "InitChildren", FALSE, FALSE))
    /\ IF EditorPage \in plast'.delivered
       THEN SettingsEvent(Ev("InitChildren", 0, <<0, 0>>, InvalidToken, <<>>))
       ELSE UNCHANGED <<children, value_docs, timers, burst, last>>
    /\ UNCHANGED config
    /\ UNCHANGED <<kpvars, themevars>>

\* the panel before any pass, in a tab whose focus is elsewhere
PanelIdle ==
    /\ panel = PanelNew
    /\ tab = [active |-> None, active_tab |-> None,
              editor_tab |-> [active |-> 0, children |-> <<PanelWidgetId>>],
              focus |-> OtherEditorId, focus_area |-> "Panel"]
    /\ plast = PanelPass("new", NoEv,
                         PanelResult(PanelNew, tab, FALSE, <<>>, FALSE, FALSE), {})

(***************************************************************************)
(* ThemeSettings: the page of one theme section ("theme.base"), one        *)
(* embedded editor per colour key.                                         *)
(***************************************************************************)
KeyBackground == "editor.background"
KeyForeground == "editor.foreground"
\* the keys of the model in sorted order, and the number of characters of each
KeyOrder == <<KeyBackground, KeyForeground>>
KeyChars == (KeyBackground :> 17) @@ (KeyForeground :> 17)

ThemeTop == 30
ThemeGap == 10
ThemeInputMaxWidth == 150
ThemeInputHeight == 100
ResetPad == 20
ResetTextWidth == CharWidth * 5

NoLayouts == [some |-> FALSE, v |-> <<>>]
SomeLayouts(keys) == [some |-> TRUE, v |-> keys]
NoRect == [some |-> FALSE, v |-> <<>>]
SomeRect(change) == [some |-> TRUE, v |-> change]

\* widget_id: WidgetId::next() of the page
ThemeWidgetId == "theme_base"

\* one of the Self { .. } of new_boxed()
ThemeNew(kind) ==
    [changed_rects |-> <<>>, inputs |-> <<>>, keys |-> <<>>, kind |-> kind,
     mouse_down_rect |-> NoRect, text_layouts |-> NoLayouts,
     widget_id |-> ThemeWidgetId]

\* keys().sorted()
Sorted(keys) ==
    LET In(k) == k \in keys
    IN  SelectSeq(KeyOrder, In)

ThemeDocName(kind, key) == <<kind, key>>

ThemeResult(self, docs, submitted, built) ==
    [built |-> built, docs |-> docs, submitted |-> submitted, theme |-> self]

\* the documents update_inputs inserts, one per colour, loaded with the theme's value
RECURSIVE UpdateInputsDocs(_, _, _, _, _)
UpdateInputsDocs(kind, colors, n, cfg, docs) ==
    IF n = 0 THEN docs
    ELSE (ThemeDocName(kind, colors[n]) :> cfg.theme[colors[n]])
            @@ UpdateInputsDocs(kind, colors, n - 1, cfg, docs)

\* an update_inputs that pushes onto the keys and inputs it finds
UpdateInputsKeepsKeys(self, cfg) ==
    LET colors == Sorted(cfg.color)
    IN  [self EXCEPT !.keys = self.keys \o colors,
                     !.inputs = self.inputs \o colors,
                     !.text_layouts = NoLayouts]

\* an update_inputs that takes the colours last first
UpdateInputsUnsorted(self, cfg) ==
    LET colors == Sorted(cfg.color)
        reversed == [i \in DOMAIN colors |-> colors[Len(colors) + 1 - i]]
    IN  [self EXCEPT !.keys = reversed,
                     !.inputs = reversed,
                     !.text_layouts = NoLayouts]

\* update_inputs(): clear, then one key and one editor per colour, in sorted order
UpdateInputs(self, cfg) ==
    LET colors == Sorted(cfg.color)
    IN  [self EXCEPT !.keys = colors,
                     !.inputs = colors,
                     !.text_layouts = NoLayouts]

\* the last of changed_rects[1..n] that contains pos, if any
RECURSIVE LastChangeAt(_, _, _)
LastChangeAt(changes, n, pos) ==
    IF n = 0 THEN NoRect
    ELSE IF Contains(changes[n].rect, pos) THEN SomeRect(changes[n])
    ELSE LastChangeAt(changes, n - 1, pos)

ResetSettingsFile(kind, key) == [cmd |-> "ResetSettingsFile", key |-> key, kind |-> kind]

\* a match that submits the reset and leaves the document as it is
ThemeMouseKeepsDoc(self, docs, ev) ==
    IF ev.type = "MouseDown"
    THEN ThemeResult([self EXCEPT !.mouse_down_rect =
                            LastChangeAt(self.changed_rects, Len(self.changed_rects), ev.pos)],
                     docs, <<>>, FALSE)
    ELSE IF ev.type = "MouseUp"
    THEN IF self.mouse_down_rect.some /\ Contains(self.mouse_down_rect.v.rect, ev.pos)
         THEN ThemeResult([self EXCEPT !.mouse_down_rect = NoRect], docs,
                          <<ResetSettingsFile(self.kind, self.mouse_down_rect.v.key)>>,
                          FALSE)
         ELSE ThemeResult([self EXCEPT !.mouse_down_rect = NoRect], docs, <<>>, FALSE)
    ELSE ThemeResult(self, docs, <<>>, FALSE)

\* a match that resets on every release after a press on a reset rectangle
ThemeMouseIgnoresRelease(self, docs, ev) ==
    IF ev.type = "MouseDown"
    THEN ThemeResult([self EXCEPT !.mouse_down_rect =
                            LastChangeAt(self.changed_rects, Len(self.changed_rects), ev.pos)],
                     docs, <<>>, FALSE)
    ELSE IF ev.type = "MouseUp"
    THEN IF self.mouse_down_rect.some
         THEN ThemeResult([self EXCEPT !.mouse_down_rect = NoRect],
                          [docs EXCEPT ![ThemeDocName(self.kind, self.mouse_down_rect.v.key)] =
                                self.mouse_down_rect.v.default],
                          <<ResetSettingsFile(self.kind, self.mouse_down_rect.v.key)>>,
                          FALSE)
         ELSE ThemeResult([self EXCEPT !.mouse_down_rect = NoRect], docs, <<>>, FALSE)
    ELSE ThemeResult(self, docs, <<>>, FALSE)

\* event(), the match on MouseDown and MouseUp
ThemeMouse(self, docs, ev) ==
    IF ev.type = "MouseDown"
    THEN ThemeResult([self EXCEPT !.mouse_down_rect =
                            LastChangeAt(self.changed_rects, Len(self.changed_rects), ev.pos)],
                     docs, <<>>, FALSE)
    ELSE IF ev.type = "MouseUp"
    THEN IF self.mouse_down_rect.some /\ Contains(self.mouse_down_rect.v.rect, ev.pos)
         THEN ThemeResult([self EXCEPT !.mouse_down_rect = NoRect],
                          [docs EXCEPT ![ThemeDocName(self.kind, self.mouse_down_rect.v.key)] =
                                self.mouse_down_rect.v.default],
                          <<ResetSettingsFile(self.kind, self.mouse_down_rect.v.key)>>,
                          FALSE)
         ELSE ThemeResult([self EXCEPT !.mouse_down_rect = NoRect], docs, <<>>, FALSE)
    ELSE ThemeResult(self, docs, <<>>, FALSE)

\* an event() that builds the inputs on every event
ThemeEventAlwaysBuilds(self, cfg, docs, ev) ==
    LET r == ThemeMouse(self, docs, ev)
        s2 == UpdateInputs(r.theme, cfg)
    IN  ThemeResult(s2, UpdateInputsDocs(s2.kind, s2.keys, Len(s2.keys), cfg, r.docs),
                    r.submitted, TRUE)

\* event(): the match, the event given to the inputs, and the build of an empty page
ThemeEvent(self, cfg, docs, ev) ==
    LET r == ThemeMouse(self, docs, ev)
    IN  IF r.theme.inputs = <<>>
        THEN LET s2 == UpdateInputs(r.theme, cfg)
             IN  ThemeResult(s2,
                             UpdateInputsDocs(s2.kind, s2.keys, Len(s2.keys), cfg, r.docs),
                             r.submitted, TRUE)
        ELSE r

\* update(): a new configuration id drops the label layouts
ThemeUpdate(self, id_changed) ==
    IF id_changed THEN [self EXCEPT !.text_layouts = NoLayouts] ELSE self

\* the widest label, 0 with no labels
RECURSIVE TextWidth(_, _)
TextWidth(keys, n) ==
    IF n = 0 THEN 0 ELSE Max(CharWidth * KeyChars[keys[n]], TextWidth(keys, n - 1))

\* (size.height * 0.2).round()
InputPadding(height) == (2 * height + 5) \div 10

\* layout(): the rectangle of input i (counted from 1), the inputs stacked from ThemeTop
InputRect(i, text_width, width) ==
    LET w == Min(width - text_width - ThemeGap, ThemeInputMaxWidth)
        pad == InputPadding(ThemeInputHeight)
        y0 == ThemeTop + (i - 1) * (ThemeInputHeight + 2 * pad) + pad
    IN  [x0 |-> text_width + ThemeGap, x1 |-> text_width + ThemeGap + w,
         y0 |-> y0, y1 |-> y0 + ThemeInputHeight]

\* a layout() that pushes onto the changed_rects it finds
RECURSIVE ChangedRectsKeepsOld(_, _, _, _, _)
ChangedRectsKeepsOld(self, n, cfg, text_width, width) ==
    IF n = 0 THEN self.changed_rects
    ELSE LET key == self.keys[n]
             default == cfg.default_theme[key]
             input == InputRect(n, text_width, width)
             x == input.x1 + ThemeGap
             before == ChangedRectsKeepsOld(self, n - 1, cfg, text_width, width)
         IN  IF cfg.theme[key] # default
             THEN Append(before,
                         [default |-> default, key |-> key,
                          rect |-> [x0 |-> x, x1 |-> x + ResetTextWidth + ResetPad,
                                    y0 |-> input.y0, y1 |-> input.y1]])
             ELSE before

\* layout(): the reset rectangles of inputs 1..n whose value is not the default
RECURSIVE ChangedRects(_, _, _, _, _)
ChangedRects(self, n, cfg, text_width, width) ==
    IF n = 0 THEN <<>>
    ELSE LET key == self.keys[n]
             default == cfg.default_theme[key]
             input == InputRect(n, text_width, width)
             x == input.x1 + ThemeGap
             before == ChangedRects(self, n - 1, cfg, text_width, width)
         IN  IF cfg.theme[key] # default
             THEN Append(before,
                         [default |-> default, key |-> key,
                          rect |-> [x0 |-> x, x1 |-> x + ResetTextWidth + ResetPad,
                                    y0 |-> input.y0, y1 |-> input.y1]])
             ELSE before

\* a layout() that submits InitChildren whether the page has inputs or not
ThemeLayoutAlwaysSubmits(self, cfg, width) ==
    LET s1 == IF self.text_layouts.some THEN self
              ELSE [self EXCEPT !.text_layouts = SomeLayouts(self.keys)]
        text_width == TextWidth(s1.text_layouts.v, Len(s1.text_layouts.v))
    IN  [submitted |-> <<UICommand("InitChildren", self.widget_id)>>,
         theme |-> [s1 EXCEPT !.changed_rects =
                        ChangedRects(s1, Len(s1.inputs), cfg, text_width, width)]]

\* layout()
ThemeLayout(self, cfg, width) ==
    LET s1 == IF self.text_layouts.some THEN self
              ELSE [self EXCEPT !.text_layouts = SomeLayouts(self.keys)]
        text_width == TextWidth(s1.text_layouts.v, Len(s1.text_layouts.v))
    IN  [submitted |-> IF self.inputs = <<>>
                       THEN <<UICommand("InitChildren", self.widget_id)>>
                       ELSE <<>>,
         theme |-> [s1 EXCEPT !.changed_rects =
                        ChangedRects(s1, Len(s1.inputs), cfg, text_width, width)]]

ThemeEv(type, pos) == [pos |-> pos, type |-> type]

\* needs_layout: a new widget and one that called ctx.children_changed() are laid
\* out before they are painted; the page makes no other request.  panicked: the
\* pass ended the program.
ThemePass(pass, ev, built, submitted) ==
    [built |-> built, ev |-> ev, pass |-> pass, submitted |-> submitted,
     was_empty |-> theme.inputs = <<>>,
     needs_layout |-> IF pass = "new" THEN TRUE
                      ELSE IF pass = "layout" THEN FALSE
                      ELSE tlast.needs_layout \/ built,
     panicked |-> FALSE]

\* event(), for an event that is not the page's own InitChildren
ThemeDeliver(ev) ==
    LET r == ThemeEvent(theme, theme_config, theme_docs, ev)
    IN  /\ ~tlast.panicked
        /\ theme' = r.theme
        /\ theme_docs' = r.docs
        /\ tlast' = ThemePass("event", ev, r.built, r.submitted)

\* the pointer positions and the widths of the model
ThemePoints == {<<310, 60>>, <<400, 60>>}
ThemeWidths == {400}

\* Event::MouseDown
OnThemeMouseDown(pos) ==
    /\ ThemeDeliver(ThemeEv("MouseDown", pos))
    /\ UNCHANGED <<theme_config, theme_queue>>
    /\ UNCHANGED <<kpvars, rowvars, panelvars>>

\* Event::MouseUp
OnThemeMouseUp(pos) ==
    /\ ThemeDeliver(ThemeEv("MouseUp", pos))
    /\ UNCHANGED <<theme_config, theme_queue>>
    /\ UNCHANGED <<kpvars, rowvars, panelvars>>

\* Event::MouseMove
OnThemeMouseMove ==
    /\ ThemeDeliver(ThemeEv("MouseMove", <<0, 0>>))
    /\ UNCHANGED <<theme_config, theme_queue>>
    /\ UNCHANGED <<kpvars, rowvars, panelvars>>

\* Event::Command(InitChildren), delivered from the queue
OnThemeInitChildren ==
    /\ theme_queue > 0
    /\ theme_queue' = theme_queue - 1
    /\ ThemeDeliver(ThemeEv("InitChildren", <<0, 0>>))
    /\ UNCHANGED theme_config
    /\ UNCHANGED <<kpvars, rowvars, panelvars>>

\* layout()
OnThemeLayout(width) ==
    LET r == ThemeLayout(theme, theme_config, width)
        ToSelf(c) == c.target = theme.widget_id
        mine == SelectSeq(r.submitted, ToSelf)
    IN  /\ ~tlast.panicked
        /\ theme_queue + Len(mine) <= MaxQueue
        /\ theme_queue' = theme_queue + Len(mine)
        /\ theme' = r.theme
        /\ tlast' = ThemePass("layout", ThemeEv("none", <<width, 0>>), FALSE, r.submitted)
        /\ UNCHANGED <<theme_config, theme_docs>>
        /\ UNCHANGED <<kpvars, rowvars, panelvars>>

\* update(), the configuration id changed or not
OnThemeUpdate(id_changed) ==
    /\ ~tlast.panicked
    /\ theme' = ThemeUpdate(theme, id_changed)
    /\ tlast' = ThemePass("update", ThemeEv("none", <<0, 0>>), FALSE, <<>>)
    /\ UNCHANGED <<theme_config, theme_docs, theme_queue>>
    /\ UNCHANGED <<kpvars, rowvars, panelvars>>

\* paint(): self.text_layouts.as_ref().unwrap()[i] for every input i fails when
\* there are inputs and no layouts, or fewer layouts than inputs
ThemePaintPanics(self) ==
    /\ self.inputs # <<>>
    /\ \/ ~self.text_layouts.some
       \/ Len(self.text_layouts.v) < Len(self.inputs)

\* paint(), which follows a layout pass when one was asked for
OnThemePaint ==
    /\ ~tlast.panicked
    /\ ~tlast.needs_layout
    /\ tlast' = [ThemePass("paint", ThemeEv("none", <<0, 0>>), FALSE, <<>>)
                    EXCEPT !.panicked = ThemePaintPanics(theme)]
    /\ UNCHANGED <<theme, theme_config, theme_docs, theme_queue>>
    /\ UNCHANGED <<kpvars, rowvars, panelvars>>

\* the values the theme gives a colour
ThemeValues == {"#000000", "#111111", "#ffffff"}

\* the configuration layer publishes a snapshot in which key has another value
ThemeConfigChange(key, value) ==
    /\ ~tlast.panicked
    /\ theme_config.theme[key] # value
    /\ theme_config' = [theme_config EXCEPT !.theme[key] = value]
    /\ tlast' = ThemePass("config", ThemeEv("none", <<0, 0>>), FALSE, <<>>)
    /\ UNCHANGED <<theme, theme_docs, theme_queue>>
    /\ UNCHANGED <<kpvars, rowvars, panelvars>>

\* the page before any pass: a theme whose background is not the default one
ThemeIdle ==
    /\ theme = ThemeNew("theme.base")
    /\ theme_config =
          [color |-> {KeyBackground, KeyForeground},
           default_theme |-> (KeyBackground :> "#000000") @@ (KeyForeground :> "#ffffff"),
           theme |-> (KeyBackground :> "#111111") @@ (KeyForeground :> "#ffffff")]
    /\ theme_docs = [n \in {} |-> 0]
    /\ theme_queue = 0
    /\ tlast = ThemePass("new", ThemeEv("none", <<0, 0>>), FALSE, <<>>)

KpInit ==
    /\ kp_input = <<>>
    /\ kp_cursor = 0
    /\ kp_panicked = FALSE
    /\ kp_last = [op |-> "init", arg |-> <<>>, input |-> <<>>, cursor |-> 0,
                  executed |-> "Yes"]

RowInit ==
    /\ children = <<>>
    /\ config = [id |-> 0, editor |-> EditorSettings]
    /\ value_docs = [n \in {} |-> 0]
    /\ queue = <<>>
    /\ timers = {}
    /\ burst = <<>>
    /\ last = [ev |-> Ev("init", 0, <<0, 0>>, InvalidToken, <<>>),
               emitted |-> <<>>, armed |-> FALSE, built |-> FALSE, panicked |-> FALSE]

Init == KpInit /\ RowInit /\ PanelIdle /\ ThemeIdle

Next ==
    \/ \E i \in 0..Len(children), pos \in Points : MouseDown(i, pos)
    \/ \E i \in 0..Len(children), c \in TypedChars : KeyDown(i, c)
    \/ MouseMove
    \/ \E token \in 1..MaxToken : TimerFire(token)
    \/ InitChildren
    \/ \E width \in Widths, height \in Heights : Layout(width, height)

Spec == Init /\ [][Next]_vars

(***************************************************************************)
(* update_children as a function of the page it is called on: the page in  *)
(* any state Spec reaches, update_children called on it whether it has     *)
(* rows or not.                                                            *)
(***************************************************************************)
CallUpdateChildren ==
    LET built == UpdateChildren(children, EditorFields, EditorDescs, config.editor)
    IN  /\ ~last.panicked
        /\ children' = built
        /\ value_docs' = UpdateChildrenDocs(built, Len(built), value_docs)
        /\ burst' = [i \in DOMAIN built |-> NoBurst]
        /\ last' = [ev |-> Ev("update_children", 0, <<0, 0>>, InvalidToken, <<>>),
                    emitted |-> <<>>, armed |-> FALSE, built |-> TRUE, panicked |-> FALSE]
        /\ UNCHANGED <<config, queue, timers>>
        /\ UNCHANGED kpvars
        /\ UNCHANGED <<panelvars, themevars>>

BuildNext == Next \/ CallUpdateChildren

BuildSpec == Init /\ [][BuildNext]_vars

(***************************************************************************)
(* The lazy build of the two kinds of page: layout passes, the delivery of *)
(* InitChildren, and other events, on a category page and on a theme page. *)
(* A submitted command is delivered.                                       *)
(***************************************************************************)
LazyNext ==
    \/ \E width \in Widths, height \in Heights : Layout(width, height)
    \/ InitChildren
    \/ MouseMove
    \/ \E width \in ThemeWidths : OnThemeLayout(width)
    \/ OnThemeInitChildren
    \/ \E pos \in ThemePoints : OnThemeMouseDown(pos)
    \/ \E pos \in ThemePoints : OnThemeMouseUp(pos)
    \/ OnThemeMouseMove
    \/ \E id_changed \in BOOLEAN : OnThemeUpdate(id_changed)

LazySpec ==
    /\ Init
    /\ [][LazyNext]_vars
    /\ WF_vars(InitChildren)
    /\ WF_vars(OnThemeInitChildren)

\* every requested timer fires
FairSpec == Spec /\ \A token \in 1..MaxToken : WF_vars(token \in timers /\ TimerFire(token))

(***************************************************************************)
(* The keypress handler started from any buffer, the cursor between two of  *)
(* its characters; every other cursor is reached from there by move-right. *)
(***************************************************************************)
CursorInit ==
    /\ kp_input \in StringsUpTo(MaxLen)
    /\ kp_cursor \in {c \in 0..Len(kp_input) : IsCharBoundary(kp_input, c)}
    /\ kp_panicked = FALSE
    /\ kp_last = [op |-> "init", arg |-> <<>>, input |-> kp_input, cursor |-> kp_cursor,
                  executed |-> "Yes"]
    /\ RowInit
    /\ PanelIdle
    /\ ThemeIdle

CursorNext ==
    \/ \E c \in InsertStrings : KpReceiveChar(c)
    \/ \E command \in KpCommands : KpRunCommand(command)

CursorSpec == CursorInit /\ [][CursorNext]_vars

(***************************************************************************)
(* The panel in any tab: the panel's editor tab with the panel among its   *)
(* children or not, an editor active in the main split or none.            *)
(***************************************************************************)
TabChildren ==
    {<<PanelWidgetId>>, <<OtherEditorId, PanelWidgetId>>, <<OtherEditorId>>}

PanelInit ==
    /\ panel = PanelNew
    /\ tab \in {[active |-> a, active_tab |-> at,
                 editor_tab |-> [active |-> i, children |-> c],
                 focus |-> OtherEditorId, focus_area |-> area] :
                    area \in {"Editor", "Panel"}, at \in {None, OtherTabId},
                    a \in {None, OtherEditorId},
                    c \in TabChildren, i \in {0}}
    /\ plast = PanelPass("new", NoEv,
                         PanelResult(PanelNew, tab, FALSE, <<>>, FALSE, FALSE), {})
    /\ KpInit
    /\ RowInit
    /\ ThemeIdle

PanelNext ==
    \/ \E pos \in PanelPoints : OnMouseDown(pos)
    \/ \E focused \in BOOLEAN, performed \in BOOLEAN : OnKeyDown(focused, performed)
    \/ \E performed \in BOOLEAN : OnLapceCommand(performed)
    \/ \E cmd \in UICommands : OnUICommand(cmd)
    \/ \E type \in OtherEvents : OnOtherEvent(type)
    \/ OnLifecycle
    \/ OnUpdate
    \/ \E size \in PanelSizes : OnLayout(size)
    \/ OnPaint

PanelSpec == PanelInit /\ [][PanelNext]_vars

(***************************************************************************)
(* Every pass over the category page and its rows: the events of Spec and  *)
(* the lifecycle, update and paint passes, the page laid out at one width. *)
(***************************************************************************)
PageWidths == {400}

PageNext ==
    \/ \E i \in 0..Len(children), pos \in Points : MouseDown(i, pos)
    \/ \E i \in 0..Len(children), c \in TypedChars : KeyDown(i, c)
    \/ MouseMove
    \/ \E token \in 1..MaxToken : TimerFire(token)
    \/ InitChildren
    \/ \E width \in PageWidths, height \in Heights : Layout(width, height)
    \/ PageLifecycle
    \/ \E id_changed \in BOOLEAN : PageUpdate(id_changed)
    \/ PagePaint

PageSpec == Init /\ [][PageNext]_vars

(***************************************************************************)
(* Every pass over every widget of the file.  A behaviour drives one of    *)
(* the three widgets, the panel, the category page or the theme page, and  *)
(* leaves the other two as they were constructed: the widgets share no     *)
(* field, and a pass over one reads and writes nothing of another.         *)
(***************************************************************************)
ThemeNext ==
    \/ \E width \in ThemeWidths : OnThemeLayout(width)
    \/ OnThemeInitChildren
    \/ \E pos \in ThemePoints : OnThemeMouseDown(pos)
    \/ \E pos \in ThemePoints : OnThemeMouseUp(pos)
    \/ OnThemeMouseMove
    \/ \E id_changed \in BOOLEAN : OnThemeUpdate(id_changed)

\* the theme page under a configuration layer that changes the theme's values
ThemeSpecNext ==
    \/ ThemeNext
    \/ \E key \in theme_config.color, value \in ThemeValues : ThemeConfigChange(key, value)

ThemeSpec == Init /\ [][ThemeSpecNext]_vars

\* the theme page with its paint pass
PaintNext ==
    \/ ThemeSpecNext
    \/ OnThemePaint

PaintSpec == Init /\ [][PaintNext]_vars

CoreNext ==
    \/ PanelIdle /\ ThemeIdle /\ PageNext
    \/ PanelIdle /\ RowInit /\ ThemeNext
    \/ RowInit /\ ThemeIdle /\ PanelNext

CoreSpec == Init /\ [][CoreNext]_vars

(***************************************************************************)
(* The category page over any snapshot of the section: the value of        *)
(* font-size of any type, and snapshots that lack a field.                 *)
(***************************************************************************)
FontSizeValues ==
    {Number(13), String(StrA), Bool(TRUE), Null, Opaque("Array"), Opaque("Object")}

Snapshots ==
    {(FontSize :> v) @@ (ShowWhitespace :> Bool(FALSE)) : v \in FontSizeValues}
        \cup {FontSize :> Number(13), ShowWhitespace :> Bool(FALSE)}

ConfigInit ==
    /\ config \in {[id |-> 0, editor |-> s] : s \in Snapshots}
    /\ children = <<>>
    /\ value_docs = [n \in {} |-> 0]
    /\ queue = <<>>
    /\ timers = {}
    /\ burst = <<>>
    /\ last = [ev |-> Ev("init", 0, <<0, 0>>, InvalidToken, <<>>),
               emitted |-> <<>>, armed |-> FALSE, built |-> FALSE, panicked |-> FALSE]
    /\ KpInit
    /\ PanelIdle
    /\ ThemeIdle

ConfigNext ==
    \/ \E i \in 0..Len(children), pos \in Points : MouseDown(i, pos)
    \/ MouseMove
    \/ \E token \in 1..MaxToken : TimerFire(token)
    \/ InitChildren
    \/ \E width \in PageWidths, height \in Heights : Layout(width, height)

ConfigSpec == ConfigInit /\ [][ConfigNext]_vars

(***************************************************************************)
(* The layout of the page over the same snapshots, under constraints lower *)
(* and higher than the rows together.                                      *)
(***************************************************************************)
StackHeights == {200, 300}

StackNext ==
    \/ \E width \in Widths, height \in StackHeights : Layout(width, height)
    \/ InitChildren
    \/ MouseMove
    \/ PagePaint

StackSpec == ConfigInit /\ [][StackNext]_vars

\* the passes that read or drop a row's text caches, over every snapshot
CacheNext ==
    \/ \E width \in Widths, height \in Heights : Layout(width, height)
    \/ InitChildren
    \/ \E id_changed \in BOOLEAN : PageUpdate(id_changed)
    \/ PagePaint

CacheSpec == ConfigInit /\ [][CacheNext]_vars

\* the snapshot a reload brings: both fields hold other values than at first
ReloadedSettings ==
    {(FontSize :> Number(14)) @@ (ShowWhitespace :> Bool(TRUE))}

ReloadNext ==
    \/ \E i \in 0..Len(children), pos \in Points : MouseDown(i, pos)
    \/ MouseMove
    \/ \E token \in 1..MaxToken : TimerFire(token)
    \/ InitChildren
    \/ \E width \in PageWidths, height \in Heights : Layout(width, height)
    \/ \E settings \in ReloadedSettings : ConfigReload(settings)

ReloadSpec == Init /\ [][ReloadNext]_vars

\* the panel and its Editor page together: every pass reaches the page through
\* the panel
SwitchNext ==
    \/ \E size \in SwitchSizes : RoutedLayout(size)
    \/ \E pos \in SwitchPoints : SwitcherMouseDown(pos)
    \/ \E i \in 0..Len(children), pos \in Points : ContentMouseDown(i, pos)
    \/ \E token \in 1..MaxToken : RoutedTimer(token)
    \/ RoutedInitChildren

SwitchSpec == Init /\ [][SwitchNext]_vars

(***************************************************************************)
(* Properties of the row's debounced write-back, under Spec.               *)
(***************************************************************************)
NumRows == Len(EditorFields)

\* the commands of a sequence that row i submitted
EmittedBy(i, cmds) ==
    SelectSeq(cmds, LAMBDA c : c.kind = children[i].kind /\ c.name = children[i].name)

\* C1: the edits of a row made before its last armed timer fires end in exactly one
\* update-settings-file command: a row never submits two commands without an edit
\* between them, its burst of edits is open exactly while it is dirty and its last
\* armed timer is pending, and the command that closed the burst was submitted when
\* the last armed timer fired and carries the value the row holds (the final one).
C1_OneCommandPerBurst ==
    \A i \in DOMAIN children :
        LET b == burst[i]
            r == children[i]
        IN  /\ b.commits <= 1
            /\ r.value_changed <=> (b.edits > 0 /\ b.commits = 0)
            /\ r.value_changed => r.last_idle_timer \in timers
            /\ (b.edits > 0 /\ r.last_idle_timer \notin timers) => b.commits = 1
            /\ b.commits = 1 => (b.value = r.value /\ b.token = r.last_idle_timer)

\* a burst of two or more edits has just been closed by one command with the row's value
C1_Witness ==
    \E i \in DOMAIN children :
        /\ burst[i].edits >= 2
        /\ burst[i].commits = 1
        /\ last.ev.type = "Timer"
        /\ last.emitted = <<UpdateSettingsFile(children[i].kind, children[i].name,
                                               children[i].value)>>

\* C2: a Timer event whose token is not the row's armed token leaves the row as it
\* was (value, dirty flag, armed token) and submits no command of that row.
C2_StaleTimerIgnored ==
    [][\A i \in DOMAIN children :
          (last'.ev.type = "Timer" /\ last'.ev.token # children[i].last_idle_timer)
              => /\ children'[i] = children[i]
                 /\ EmittedBy(i, last'.emitted) = <<>>]_vars

\* a timer that is not the armed one was delivered to a dirty row, which stays dirty
C2_Witness ==
    \E i \in DOMAIN children :
        /\ last.ev.type = "Timer"
        /\ last.ev.token # children[i].last_idle_timer
        /\ children[i].value_changed
        /\ children[i].last_idle_timer \in timers
        /\ last.emitted = <<>>

\* C3: a Timer event with the armed token on a dirty row submits exactly one
\* update-settings-file command with the row's kind, name and current value and
\* clears the dirty flag; a Timer event on a row that is not dirty (the same token
\* delivered again included) submits nothing and leaves the row as it was.
C3_TimerCommitsOnce ==
    [][\A i \in DOMAIN children :
          last'.ev.type = "Timer" =>
              IF children[i].value_changed
                    /\ last'.ev.token = children[i].last_idle_timer
              THEN /\ EmittedBy(i, last'.emitted) =
                          <<UpdateSettingsFile(children[i].kind, children[i].name,
                                               children[i].value)>>
                   /\ children'[i] = [children[i] EXCEPT !.value_changed = FALSE]
              ELSE ~children[i].value_changed
                       => /\ EmittedBy(i, last'.emitted) = <<>>
                          /\ children'[i] = children[i]]_vars

\* the token that already made a row submit its command was delivered once more
C3_Witness ==
    \E i \in DOMAIN children :
        /\ last.ev.type = "Timer"
        /\ last.ev.token = children[i].last_idle_timer
        /\ last.ev.token = burst[i].token
        /\ burst[i].commits = 1
        /\ ~children[i].value_changed
        /\ last.emitted = <<>>

\* C5: a pointer-down inside the checkbox rectangle of a boolean row with value b
\* stores not b, sets the dirty flag and arms a timer no one holds; the value of a
\* row changes in no other way; and the armed timer firing on the dirty row submits
\* update-settings-file(kind, name, value), the value being the one stored.
C5_CheckboxToggle ==
    [][\A i \in DOMAIN children :
          /\ (/\ last'.ev.type = "MouseDown" /\ last'.ev.row = i
              /\ children[i].value.t = "Bool"
              /\ Contains(CheckboxRect(children[i]), last'.ev.pos))
                => /\ children'[i].value = Bool(~children[i].value.b)
                   /\ children'[i].value_changed
                   /\ children'[i].last_idle_timer \in timers' \ LiveTokens
          /\ children'[i].value # children[i].value
                => /\ last'.ev.type = "MouseDown" /\ last'.ev.row = i
                   /\ Contains(CheckboxRect(children[i]), last'.ev.pos)
          /\ (last'.ev.type = "Timer" /\ TimerMatches(children[i], last'.ev.token))
                => EmittedBy(i, last'.emitted) =
                       <<UpdateSettingsFile(children[i].kind, children[i].name,
                                            children[i].value)>>]_vars

\* show-whitespace, false when built, was clicked once and its timer fired:
\* the command carries true
C5_Witness ==
    /\ last.ev.type = "Timer"
    /\ last.emitted = <<UpdateSettingsFile("editor", ShowWhitespace, Bool(TRUE))>>
    /\ \E i \in DOMAIN children :
          /\ children[i].name = ShowWhitespace
          /\ burst[i].edits = 1
          /\ burst[i].commits = 1

(***************************************************************************)
(* The write-back eventually happens, under FairSpec.                      *)
(***************************************************************************)
Dirty(i) == i \in DOMAIN children /\ children[i].value_changed
Holds(i, token) == i \in DOMAIN children /\ children[i].last_idle_timer = token

\* a step that changes a row's value sets its dirty flag and arms a timer no one holds
C4_MutationArms ==
    \A i \in DOMAIN children :
        children'[i].value # children[i].value
            => /\ children'[i].value_changed
               /\ children'[i].last_idle_timer \in timers' \ LiveTokens

\* with no timer pending no row is dirty, and an edited row's last command
\* carries the value the row stores
C4_Quiescent ==
    timers = {} =>
        \A i \in DOMAIN children :
            /\ ~children[i].value_changed
            /\ burst[i].edits > 0 => (burst[i].commits = 1 /\ burst[i].value = children[i].value)

\* C4 as stated: every mutation sets the dirty flag and arms a fresh timer; every
\* armed timer being delivered, every mutation is eventually followed by the row's
\* update-settings-file command; and once no timer is pending the row is not
\* dirty and its last command carries the stored value.
C4_EveryMutationCommitted ==
    /\ [][C4_MutationArms]_vars
    /\ []C4_Quiescent
    /\ \A i \in 1..NumRows : Dirty(i) ~> ~Dirty(i)

\* C4, amended: every mutation sets the dirty flag and arms a fresh timer; every
\* armed timer being delivered, every mutation is eventually followed by the row's
\* update-settings-file command or by a further mutation of the row, which arms
\* another timer; and once no timer is pending the row is not dirty and its last
\* command carries the stored value.
C4_MutationCommittedOrRearmed ==
    /\ [][C4_MutationArms]_vars
    /\ []C4_Quiescent
    /\ \A i \in 1..NumRows : \A token \in 1..MaxToken :
          (Dirty(i) /\ Holds(i, token)) ~> (~Dirty(i) \/ ~Holds(i, token))

\* a row was edited, every timer has fired, and the row's command carries its value
C4_Witness ==
    /\ timers = {}
    /\ \E i \in DOMAIN children :
          /\ burst[i].edits > 0
          /\ burst[i].commits = 1
          /\ burst[i].value = children[i].value
          /\ ~children[i].value_changed

(***************************************************************************)
(* Typing into a text row, under Spec.                                     *)
(***************************************************************************)
FontSizeDoc == <<"editor", FontSize>>

\* the font-size row is built, the pointer went down at the end of its text "13",
\* "5" was typed there, and no timer is pending
TypedFiveAtEnd(i) ==
    /\ i \in DOMAIN children
    /\ children[i].name = FontSize
    /\ children[i].cursor = Len(Str13)
    /\ last.ev.type = "KeyDown" /\ last.ev.row = i /\ last.ev.c = Str5
    /\ value_docs[FontSizeDoc].text = Str135
    /\ timers = {}

IsInsert == kp_last.op = "receive_char"
IsCommand(kind, cmd) ==
    kp_last.op = "run_command" /\ kp_last.arg = [kind |-> kind, cmd |-> cmd]

\* C7: the cursor stays within the buffer, 0 <= cursor <= len(input), and no
\* operation fails.
C7_CursorInBoundsNoFailure ==
    /\ ~kp_panicked
    /\ kp_cursor >= 0
    /\ kp_cursor <= Len(kp_input)

\* C8: inserting k bytes at c gives a buffer of len + k bytes and the cursor c + k;
\* delete-backward at 0 changes nothing; delete-backward at c > 0 gives a buffer of
\* len - 1 bytes and the cursor c - 1.
C8_InsertDeleteLengths ==
    /\ IsInsert
          => /\ ~kp_panicked
             /\ Len(kp_input) = Len(kp_last.input) + Len(kp_last.arg)
             /\ kp_cursor = kp_last.cursor + Len(kp_last.arg)
    /\ (IsCommand("Edit", "DeleteForward") /\ kp_last.cursor = 0)
          => (kp_input = kp_last.input /\ kp_cursor = 0)
    /\ (IsCommand("Edit", "DeleteForward") /\ kp_last.cursor > 0)
          => /\ ~kp_panicked
             /\ Len(kp_input) = Len(kp_last.input) - 1
             /\ kp_cursor = kp_last.cursor - 1

\* C9: an insertion at c gives old[0..c] ++ inserted ++ old[c..]; delete-backward at
\* c > 0 gives old[0..c-1] ++ old[c..], the byte before the cursor removed and
\* nothing else.
C9_SpliceAtCursor ==
    LET old == kp_last.input
        c == kp_last.cursor
    IN  /\ IsInsert
              => kp_input = SubSeq(old, 1, c) \o kp_last.arg \o SubSeq(old, c + 1, Len(old))
        /\ (IsCommand("Edit", "DeleteForward") /\ c > 0)
              => kp_input = SubSeq(old, 1, c - 1) \o SubSeq(old, c + 1, Len(old))

\* C10: a cursor movement leaves the buffer as it was; move-right gives
\* min(cursor + 1, len), move-left gives cursor - 1, or 0 at 0; both are reported
\* as executed, at the ends of the buffer too.
C10_MovementClamps ==
    /\ IsCommand("Move", "Right")
          => /\ kp_input = kp_last.input
             /\ kp_cursor = Min(kp_last.cursor + 1, Len(kp_last.input))
             /\ kp_last.executed = "Yes"
             /\ ~kp_panicked
    /\ IsCommand("Move", "Left")
          => /\ kp_input = kp_last.input
             /\ kp_cursor = (IF kp_last.cursor > 0 THEN kp_last.cursor - 1 ELSE 0)
             /\ kp_last.executed = "Yes"
             /\ ~kp_panicked

\* move-right at the end of a buffer that is not empty: the cursor stays at the end
C10_Witness ==
    /\ IsCommand("Move", "Right")
    /\ kp_last.cursor = Len(kp_last.input)
    /\ Len(kp_input) > 0
    /\ kp_cursor = Len(kp_input)
    /\ kp_last.executed = "Yes"

\* the commands run_command has an arm for
ClaimedCommands ==
    {[kind |-> "Move", cmd |-> "Right"], [kind |-> "Move", cmd |-> "Left"],
     [kind |-> "Edit", cmd |-> "DeleteForward"]}

\* C11: run_command reports move-right, move-left and delete-forward as executed;
\* for every other command (another move, another edit, another kind) it reports
\* not-executed and leaves the buffer and the cursor as they were.
C11_OtherCommandsDeclined ==
    kp_last.op = "run_command"
        => /\ kp_last.arg \in ClaimedCommands => kp_last.executed = "Yes"
           /\ kp_last.arg \notin ClaimedCommands
                 => /\ kp_last.executed = "No"
                    /\ kp_input = kp_last.input
                    /\ kp_cursor = kp_last.cursor
                    /\ ~kp_panicked

\* another edit command, on a buffer with the cursor inside it, was declined
C11_Witness ==
    /\ IsCommand("Edit", "DeleteBackward")
    /\ kp_last.executed = "No"
    /\ kp_cursor > 0
    /\ kp_cursor < Len(kp_input)
    /\ kp_input = kp_last.input

(***************************************************************************)
(* The switcher, under PanelSpec.                                          *)
(***************************************************************************)
IsPanelEvent(type) == plast.pass = "event" /\ plast.ev.type = type
IsUICommand(cmd) == IsPanelEvent("UICommand") /\ plast.ev.cmd = cmd
\* the last event was a pointer-down inside the switcher (events leave the rectangle)
SwitcherClick == IsPanelEvent("MouseDown") /\ Contains(panel.switcher_rect, plast.ev.pos)
\* floor((y - switcher_top) / row_height) of the last pointer-down
ClickedIndex == (plast.ev.pos[2] - panel.switcher_rect.y0) \div SwitcherLineHeight

\* C12: in every state 0 <= active < page_count, page_count being the number of
\* children (6); every child a pass is given to is one of the children.
C12_ActiveInRange ==
    /\ PageCount = 6
    /\ panel.active >= 0
    /\ panel.active < PageCount
    /\ \A i \in plast.delivered : i >= 0 /\ i < PageCount

\* a click below the last row, then ShowKeybindings: the active page is the last
C12_Witness ==
    /\ SwitcherClick
    /\ ClickedIndex >= PageCount
    /\ plast.was = KeybindingsPage
    /\ panel.active = PageCount - 1

\* C13: a switcher click whose index is outside [0, page_count) leaves active as it
\* was; a click on the row of the active page, the first or a repeated one, leaves
\* active equal to that row's index.
C13_SwitchIdempotentBounded ==
    SwitcherClick
        => /\ (ClickedIndex < 0 \/ ClickedIndex >= PageCount) => panel.active = plast.was
           /\ ClickedIndex = plast.was => panel.active = ClickedIndex

\* a click on the row of the page that is active already
C13_Witness ==
    /\ SwitcherClick
    /\ ClickedIndex = 3
    /\ plast.was = 3
    /\ panel.active = 3

\* C14 as stated: a pointer-down inside the switcher makes the computed index,
\* clamped to the valid page range, the active page and requests a re-layout.
C14_ClickClampsIndex ==
    SwitcherClick
        => /\ panel.active = Max(0, Min(ClickedIndex, PageCount - 1))
           /\ plast.request_layout

\* C14, amended: a pointer-down inside the switcher computes
\* index = floor((y - switcher_top) / row_height); an index below page_count
\* becomes the active page and a re-layout is requested; any other index leaves
\* the active page as it was and requests no re-layout.
C14_ClickSelectsIndexInRange ==
    SwitcherClick
        => IF ClickedIndex >= 0 /\ ClickedIndex < PageCount
           THEN panel.active = ClickedIndex /\ plast.request_layout
           ELSE panel.active = plast.was /\ ~plast.request_layout

\* a click in the last pixel row of row 0 while page 3 was active selects page 0
C14_Witness ==
    /\ SwitcherClick
    /\ plast.ev.pos[2] = SwitcherLineHeight - 1
    /\ plast.was = 3
    /\ panel.active = 0
    /\ plast.request_layout

\* the position of the panel in its editor tab is the tab's active child
PanelIsActiveChild ==
    /\ tab.editor_tab.active + 1 \in DOMAIN tab.editor_tab.children
    /\ tab.editor_tab.children[tab.editor_tab.active + 1] = PanelWidgetId
    /\ \A i \in 1..tab.editor_tab.active : tab.editor_tab.children[i] # PanelWidgetId

\* C15: after a pointer-down inside the switcher, its index in range or not, and
\* after a Focus signal, the event is consumed and given to no child, the tab's
\* focus is the panel's widget id, the focus area is Editor, the active tab is the
\* panel's editor tab and, the panel being a child of that tab, the tab's active
\* child is the panel's position.
C15_FocusTransfer ==
    (SwitcherClick \/ IsUICommand("Focus"))
        => /\ plast.handled
           /\ plast.delivered = {}
           /\ tab.focus = PanelWidgetId
           /\ tab.focus_area = "Editor"
           /\ tab.active_tab = EditorTabId
           /\ (\E i \in DOMAIN tab.editor_tab.children :
                    tab.editor_tab.children[i] = PanelWidgetId) => PanelIsActiveChild

\* a click below the last row, in a tab where the panel is the second child
C15_Witness ==
    /\ SwitcherClick
    /\ ClickedIndex >= PageCount
    /\ tab.editor_tab.children = <<OtherEditorId, PanelWidgetId>>
    /\ tab.editor_tab.active = 1
    /\ tab.focus = PanelWidgetId

\* C16: ShowSettings makes page 0 the active page and requests the focus;
\* ShowKeybindings makes the keybindings page, the last one (5), the active page
\* and requests the focus; whichever page was active before.
C16_ShowSelectsPage ==
    /\ IsUICommand("ShowSettings")
          => (panel.active = 0 /\ plast.request_focus)
    /\ IsUICommand("ShowKeybindings")
          => /\ panel.active = 5
             /\ panel.active = PageCount - 1
             /\ PanelChildren[panel.active + 1] = "Keymap"
             /\ plast.request_focus

\* ShowKeybindings while page 3 was active
C16_Witness ==
    /\ IsUICommand("ShowKeybindings")
    /\ plast.was = 3
    /\ panel.active = 5

\* C17: on Hide the panel submits exactly one Focus command, targeted at the main
\* split's active editor, when there is one, and no command when there is none;
\* the active page stays as it was.
C17_HideRedelegatesFocus ==
    IsUICommand("Hide")
        => /\ tab.active # None => plast.submitted = <<UICommand("Focus", tab.active)>>
           /\ tab.active = None => plast.submitted = <<>>
           /\ panel.active = plast.was

\* Hide with an editor active in the main split, page 3 being the active page
C17_Witness ==
    /\ IsUICommand("Hide")
    /\ tab.active = OtherEditorId
    /\ Len(plast.submitted) = 1
    /\ panel.active = 3

\* C18: an event the panel has not consumed is given to every child when it is of
\* the kind that propagates to hidden widgets, and to the active child alone
\* otherwise; lifecycle and update are given to every child; layout and paint to
\* the active child alone.
C18_EventRouting ==
    /\ (plast.pass = "event" /\ ~plast.handled)
          => plast.delivered = (IF plast.ev.type \in {"LapceCommand", "UICommand",
                                                        "Timer", "WindowSize"}
                                THEN 0..(PageCount - 1)
                                ELSE {panel.active})
    /\ plast.pass \in {"lifecycle", "update"} => plast.delivered = 0..(PageCount - 1)
    /\ plast.pass \in {"layout", "paint"} => plast.delivered = {panel.active}

\* a command the panel does not consume, page 3 being active, reaches every page
C18_Witness ==
    /\ IsUICommand("InitChildren")
    /\ ~plast.handled
    /\ panel.active = 3
    /\ plast.delivered = 0..5

(***************************************************************************)
(* Building a page, under BuildSpec.                                       *)
(***************************************************************************)
\* C19: after a build, by an event on an empty page or by update_children called
\* again, the rows are one per reflected (field, description) pair, row i for
\* field i, each new and holding the snapshot's value; no row is there twice.
C19_BuildOrderNoDuplicates ==
    last.built
        => /\ Len(children) = Len(EditorFields)
           /\ \A i \in DOMAIN children :
                 /\ children[i].kind = "editor"
                 /\ children[i].name = ReplaceUnderscore(EditorFields[i])
                 /\ children[i].desc = EditorDescs[i]
                 /\ children[i].value = config.editor[children[i].name]
                 /\ ~children[i].value_changed
                 /\ children[i].last_idle_timer = InvalidToken
           /\ \A i, j \in DOMAIN children :
                 children[i].name = children[j].name => i = j

\* update_children called on a page whose checkbox row had armed a timer: the
\* timer is still pending, the rows are the two new ones
C19_Witness ==
    /\ last.ev.type = "update_children"
    /\ last.built
    /\ timers # {}
    /\ Len(children) = 2
    /\ children[2].name = ShowWhitespace

\* C20: lazy build of a page. A layout pass on a page with no children submits one
\* InitChildren addressed to the page itself; an event that a page with no children
\* receives builds the children and raises children_changed; on a page with children
\* no event and no layout pass builds again or submits InitChildren, and the children
\* stay; a page that was laid out while empty is eventually built. This for the
\* category page (children, queue, last) and for the theme page (theme, theme_queue,
\* tlast).
CategoryStep == rowvars' # rowvars
ThemeStep == themevars' # themevars
C20_LazyBuildProtocol ==
    /\ [][(CategoryStep /\ last'.ev.type = "Layout") =>
            IF children = <<>>
            THEN queue' = Append(queue, "InitChildren") /\ children' = <<>>
            ELSE queue' = queue]_vars
    /\ [][(CategoryStep /\ last'.ev.type # "Layout") =>
            /\ last'.built <=> children = <<>>
            /\ children = <<>> => children' # <<>>
            /\ Len(queue') <= Len(queue)]_vars
    /\ [][children # <<>> =>
            /\ Len(children') = Len(children)
            /\ \A i \in DOMAIN children : children'[i].name = children[i].name]_vars
    /\ [][(ThemeStep /\ tlast'.pass = "layout") =>
            /\ tlast'.submitted =
                  IF theme.inputs = <<>>
                  THEN <<UICommand("InitChildren", theme.widget_id)>> ELSE <<>>
            /\ theme_queue' = theme_queue + (IF theme.inputs = <<>> THEN 1 ELSE 0)
            /\ theme'.inputs = theme.inputs
            /\ ~tlast'.built]_vars
    /\ [][(ThemeStep /\ tlast'.pass # "layout") =>
            /\ tlast'.built <=> (theme.inputs = <<>> /\ tlast'.pass = "event")
            /\ (theme.inputs = <<>> /\ tlast'.pass = "event") => theme'.inputs # <<>>
            /\ theme_queue' <= theme_queue
            /\ \A i \in DOMAIN tlast'.submitted :
                  tlast'.submitted[i].cmd # "InitChildren"]_vars
    /\ [][theme.inputs # <<>> =>
            /\ theme'.inputs = theme.inputs
            /\ theme'.keys = theme.keys]_vars
    /\ (children = <<>> /\ queue # <<>>) ~> (children # <<>>)
    /\ (theme.inputs = <<>> /\ theme_queue > 0) ~> (theme.inputs # <<>>)

\* both pages were laid out while empty and were built when their InitChildren arrived
C20_Witness ==
    /\ last.ev.type = "InitChildren" /\ last.built /\ children # <<>>
    /\ tlast.ev.type = "InitChildren" /\ tlast.built /\ tlast.was_empty
    /\ theme.inputs = <<KeyBackground, KeyForeground>>
    /\ queue = <<>> /\ theme_queue = 0

(***************************************************************************)
(* The widgets and the configuration snapshot, under CoreSpec.             *)
(***************************************************************************)
\* C21: no pass over the panel, the category page, a row or the theme page changes
\* the configuration or the theme it reads; a row whose value changes keeps the
\* change to itself, the snapshot's value for the row and the documents stay; the
\* commands a row submits are update-settings-file, those of the theme page
\* reset-settings-file (and InitChildren to itself), those of the panel Focus.
C21_SnapshotNotMutated ==
    /\ [][config' = config /\ theme_config' = theme_config]_vars
    /\ [][\A i \in DOMAIN children :
            (i \in DOMAIN children' /\ children'[i].value # children[i].value)
                => /\ config'.editor[children[i].name] = config.editor[children[i].name]
                   /\ value_docs' = value_docs
                   /\ last'.emitted = <<>>]_vars
    /\ [](\A k \in DOMAIN last.emitted : last.emitted[k].cmd = "UpdateSettingsFile")
    /\ [](\A k \in DOMAIN tlast.submitted :
            tlast.submitted[k].cmd \in {"ResetSettingsFile", "InitChildren"})
    /\ [](\A k \in DOMAIN plast.submitted : plast.submitted[k].cmd = "Focus")

\* show-whitespace was toggled and its timer fired: the command carries true and the
\* snapshot still says false
C21_Witness ==
    /\ last.ev.type = "Timer"
    /\ last.emitted = <<UpdateSettingsFile("editor", ShowWhitespace, Bool(TRUE))>>
    /\ config.editor[ShowWhitespace] = Bool(FALSE)
    /\ \E i \in DOMAIN children :
          children[i].name = ShowWhitespace /\ children[i].value = Bool(TRUE)

(***************************************************************************)
(* The rows of a built page, under PageSpec.                               *)
(***************************************************************************)
\* C29: the rows of a page that has rows stay: no event, lifecycle, update, layout
\* or paint pass changes how many there are, their order (the field each stands
\* for, with its section and description) or their kind (the type of the value and
\* whether there is an editor). This holds for every pass, the update pass that
\* sees a new configuration id included.
C29_RowListStatic ==
    [][children # <<>> =>
        /\ Len(children') = Len(children)
        /\ \A i \in DOMAIN children :
              /\ children'[i].kind = children[i].kind
              /\ children'[i].name = children[i].name
              /\ children'[i].desc = children[i].desc
              /\ children'[i].value.t = children[i].value.t
              /\ children'[i].input_widget = children[i].input_widget]_vars

\* the built page went through an update pass with the same configuration id, after
\* the checkbox row was toggled: font-size first, show-whitespace second
C29_Witness ==
    /\ last.ev.type = "Update"
    /\ Len(children) = 2
    /\ children[1].name = FontSize /\ children[1].input_widget
    /\ children[2].name = ShowWhitespace /\ children[2].value = Bool(TRUE)

(***************************************************************************)
(* Pointer-downs on a row, under Spec.                                     *)
(***************************************************************************)
RowClicked(i) == last'.ev.type = "MouseDown" /\ last'.ev.row = i

\* what a pointer-down that is no checkbox hit leaves alone
RowValueKept(i) ==
    /\ children'[i].value = children[i].value
    /\ children'[i].value_changed = children[i].value_changed
    /\ children'[i].last_idle_timer = children[i].last_idle_timer
    /\ children'[i].input = children[i].input
    /\ last'.emitted = <<>>
    /\ ~last'.armed
    /\ timers' = timers

\* C30: a pointer-down on a boolean row outside its checkbox rectangle leaves the
\* row's value, dirty flag and timer token as they were, submits nothing and arms
\* no timer; a pointer-down on a text row outside its value rectangle leaves the
\* cursor as well; a pointer-down inside the value rectangle sets the cursor to an
\* offset from 0 to the length of the text and changes nothing else of these.
C30_HitTestMisses ==
    [][\A i \in DOMAIN children :
          /\ (/\ RowClicked(i) /\ children[i].value.t = "Bool"
              /\ ~Contains(CheckboxRect(children[i]), last'.ev.pos))
                => (RowValueKept(i) /\ children'[i].cursor = children[i].cursor)
          /\ (/\ RowClicked(i) /\ children[i].input_widget
              /\ ~Contains(ValueRect(children[i]), last'.ev.pos))
                => (RowValueKept(i) /\ children'[i].cursor = children[i].cursor)
          /\ (/\ RowClicked(i) /\ children[i].input_widget
              /\ Contains(ValueRect(children[i]), last'.ev.pos))
                => (RowValueKept(i) /\ children'[i].cursor \in 0..Len(children[i].input))]_vars

\* font-size, laid out 600 wide, took a pointer-down at the right end of its value
\* rectangle: the cursor is behind the two characters of "13"; show-whitespace
\* holds a timer from an earlier checkbox hit and is still dirty
C30_Witness ==
    /\ last.ev.type = "MouseDown"
    /\ last.ev.pos = <<450, 80>>
    /\ last.ev.row = 1
    /\ Len(children) = 2
    /\ children[1].name = FontSize /\ children[1].width = 600
    /\ children[1].input = Str13 /\ children[1].cursor = 2
    /\ ~children[1].value_changed
    /\ children[2].value_changed /\ children[2].last_idle_timer # InvalidToken

(***************************************************************************)
(* The build and the rows over any snapshot, under ConfigSpec.             *)
(***************************************************************************)
\* the fields of the section the snapshot's map does not hold
MissingFields ==
    {i \in 1..Min(Len(EditorFields), Len(EditorDescs)) :
        ReplaceUnderscore(EditorFields[i]) \notin DOMAIN config.editor}

\* C22: the build of a page fails fatally exactly when a field of the section, its
\* underscores replaced by hyphens, is not in the snapshot's map: the event that
\* finds the page empty then panics, the page has no row, not even for the fields
\* the map holds, and no pass follows; with every field in the map the build gives
\* one row per field and does not fail.
C22_MissingFieldIsFatal ==
    /\ [][(children = <<>> /\ last'.ev.type # "Layout" /\ last' # last) =>
            /\ last'.panicked <=> MissingFields # {}
            /\ MissingFields # {} => (children' = <<>> /\ ~last'.built)
            /\ MissingFields = {} =>
                  /\ last'.built
                  /\ Len(children') = Min(Len(EditorFields), Len(EditorDescs))]_vars
    /\ [](last.panicked => (children = <<>> /\ MissingFields # {}))
    /\ [][~last.panicked]_vars

\* the snapshot lacks font-size and holds show-whitespace: the build panicked
C22_Witness ==
    /\ last.panicked
    /\ FontSize \notin DOMAIN config.editor
    /\ ShowWhitespace \in DOMAIN config.editor
    /\ children = <<>>

IsOpaque(value) == value.t \in {"Null", "Array", "Object"}

\* C23: the control of a row follows the type of its value, and a row is built for
\* a value of any type: a number or a string has an embedded editor with its
\* document, a boolean has none and is the only kind of row whose value a
\* pointer-down changes, and a null, an array or an object has no control: a
\* pointer-down on such a row, wherever it lands, leaves its value, its dirty flag
\* and its timer token as they were and arms no timer.
C23_ControlByValueType ==
    /\ [](\A i \in DOMAIN children :
            /\ children[i].input_widget <=> children[i].value.t \in {"Number", "String"}
            /\ children[i].input_widget => DocName(children[i]) \in DOMAIN value_docs
            /\ IsOpaque(children[i].value) =>
                  /\ ~children[i].value_changed
                  /\ children[i].last_idle_timer = InvalidToken)
    /\ [][last'.built =>
            /\ Len(children') = Min(Len(EditorFields), Len(EditorDescs))
            /\ \A i \in DOMAIN children' :
                  children'[i].value = config.editor[children'[i].name]]_vars
    /\ [][\A i \in DOMAIN children :
            /\ (last' # last /\ last'.ev.type = "MouseDown" /\ last'.ev.row = i
                    /\ IsOpaque(children[i].value))
                  => /\ children'[i].value = children[i].value
                     /\ children'[i].value_changed = children[i].value_changed
                     /\ children'[i].last_idle_timer = children[i].last_idle_timer
                     /\ ~last'.armed
                     /\ timers' = timers
            /\ (i \in DOMAIN children' /\ children'[i].value # children[i].value)
                  => children[i].value.t = "Bool"]_vars

\* the row of an array was laid out and took a pointer-down where the checkbox of a
\* boolean row is
C23_Witness ==
    /\ last.ev.type = "MouseDown"
    /\ last.ev.row \in DOMAIN children
    /\ children[last.ev.row].value = Opaque("Array")
    /\ Contains(CheckboxRect(children[last.ev.row]), last.ev.pos)
    /\ ~children[last.ev.row].input_widget

(***************************************************************************)
(* The layout of the category page, under StackSpec.                       *)
(***************************************************************************)
\* C24: a layout pass of the page stacks the rows from the top without gap or
\* overlap: the first row is at y = 0, each next row at the y of the row before it
\* plus that row's height; the size returned is the constraint's width and the
\* larger of the constraint's height and the height of all rows together; a page
\* without rows returns the constraint.
C24_RowsStackedTopToBottom ==
    last.ev.type = "Layout" =>
        LET n == Len(children)
            total == IF n = 0 THEN 0 ELSE last.origins[n] + last.heights[n]
        IN  /\ Len(last.origins) = n /\ Len(last.heights) = n
            /\ \A i \in 1..n : last.heights[i] > 0
            /\ n > 0 => last.origins[1] = 0
            /\ \A i \in 1..(n - 1) :
                  last.origins[i + 1] = last.origins[i] + last.heights[i]
            /\ last.size[1] = last.ev.pos[1]
            /\ last.size[2] = Max(last.ev.pos[2], total)
            /\ n = 0 => last.size = last.ev.pos

\* a number row of height 135 above a checkbox row of height 95, laid out under a
\* constraint 200 high: the second row is at 135 and the height returned is 230
C24_Witness ==
    /\ last.ev.type = "Layout"
    /\ last.ev.pos = <<400, 200>>
    /\ last.heights = <<135, 95>>
    /\ last.origins = <<0, 135>>
    /\ last.size = <<400, 230>>

(***************************************************************************)
(* The theme page, under ThemeSpec.                                        *)
(***************************************************************************)
\* the place of a key in the sorted order of the keys
KeyRank(key) == CHOOSE r \in DOMAIN KeyOrder : KeyOrder[r] = key

\* C25: a theme page that has been built lists the colours of its section, each
\* once, in sorted order, and has one editor per key, editor i on the document of
\* key i; the build loads each document with the value the theme gives the key at
\* that moment. The lists stay so in every later state.
C25_SortedKeysOneEditorEach ==
    /\ [](theme.inputs # <<>> =>
            /\ {theme.keys[i] : i \in DOMAIN theme.keys} = theme_config.color
            /\ Len(theme.keys) = Cardinality(theme_config.color)
            /\ \A i, j \in DOMAIN theme.keys :
                  i < j => KeyRank(theme.keys[i]) < KeyRank(theme.keys[j])
            /\ Len(theme.inputs) = Len(theme.keys)
            /\ \A i \in DOMAIN theme.keys :
                  /\ theme.inputs[i] = theme.keys[i]
                  /\ ThemeDocName(theme.kind, theme.keys[i]) \in DOMAIN theme_docs)
    /\ [][tlast'.built =>
            (tlast' = tlast \/
             \A i \in DOMAIN theme'.keys :
                theme_docs'[ThemeDocName(theme.kind, theme'.keys[i])] =
                    theme_config.theme[theme'.keys[i]])]_vars

\* the page was built under a theme changed since the start, and has since been
\* laid out: background before foreground, the background's document still at the
\* value the theme had at the build
C25_Witness ==
    /\ theme.keys = <<KeyBackground, KeyForeground>>
    /\ theme.inputs = theme.keys
    /\ tlast.pass = "layout"
    /\ theme_docs[ThemeDocName("theme.base", KeyBackground)] = "#ffffff"
    /\ theme_docs[ThemeDocName("theme.base", KeyForeground)] = "#111111"

\* C26: after a layout pass changed_rects holds one entry per key of the page whose
\* value in the theme is not its default, and none for a key at its default; an
\* entry is the key, the default and a rectangle that is not empty; the entries of
\* an earlier pass are gone, so a key back at its default has lost its entry.
C26_ChangedRectsExact ==
    tlast.pass = "layout" =>
        LET rects == theme.changed_rects
        IN  /\ \A i \in DOMAIN theme.keys :
                  (theme_config.theme[theme.keys[i]]
                        # theme_config.default_theme[theme.keys[i]])
                     <=> \E k \in DOMAIN rects : rects[k].key = theme.keys[i]
            /\ \A k \in DOMAIN rects :
                  /\ \E i \in DOMAIN theme.keys : theme.keys[i] = rects[k].key
                  /\ rects[k].default = theme_config.default_theme[rects[k].key]
                  /\ rects[k].rect.x0 < rects[k].rect.x1
                  /\ rects[k].rect.y0 < rects[k].rect.y1
            /\ \A k, l \in DOMAIN rects : rects[k].key = rects[l].key => k = l

\* the background had an entry, on which the pointer went down; the theme then gave
\* it its default again and the next layout pass left no entry for it
C26_Witness ==
    /\ tlast.pass = "layout"
    /\ theme.mouse_down_rect.some
    /\ theme.mouse_down_rect.v.key = KeyBackground
    /\ theme_config.theme[KeyBackground] = theme_config.default_theme[KeyBackground]
    /\ theme.inputs # <<>>
    /\ \A k \in DOMAIN theme.changed_rects : theme.changed_rects[k].key # KeyBackground

IsThemeEvent(type) == tlast'.pass = "event" /\ tlast'.ev.type = type

\* the entries of changed_rects that contain the position of the event of this step
RectsHit == {k \in DOMAIN theme.changed_rects :
                Contains(theme.changed_rects[k].rect, tlast'.ev.pos)}

\* C27: a pointer-down inside the reset rectangle of a changed key records that
\* entry (key, default, rectangle); a pointer-up inside the recorded rectangle
\* reloads the document of the recorded key, and no other, with the recorded
\* default, submits one command, reset-settings-file(section, key), and forgets the
\* record.
C27_ResetOnMatchingRelease ==
    /\ [][(IsThemeEvent("MouseDown") /\ RectsHit # {}) =>
            /\ theme'.mouse_down_rect.some
            /\ \E k \in RectsHit : theme'.mouse_down_rect.v = theme.changed_rects[k]
            /\ tlast'.submitted = <<>>
            /\ theme_docs' = theme_docs]_vars
    /\ [][(/\ IsThemeEvent("MouseUp")
            /\ theme.mouse_down_rect.some
            /\ Contains(theme.mouse_down_rect.v.rect, tlast'.ev.pos)) =>
            LET hit == theme.mouse_down_rect.v
                name == ThemeDocName(theme.kind, hit.key)
            IN  /\ name \in DOMAIN theme_docs
                /\ theme_docs'[name] = hit.default
                /\ \A other \in DOMAIN theme_docs \ {name} :
                      theme_docs'[other] = theme_docs[other]
                /\ tlast'.submitted = <<ResetSettingsFile(theme.kind, hit.key)>>
                /\ ~theme'.mouse_down_rect.some]_vars

\* the pointer went down and up on the reset rectangle of editor.background, whose
\* default is "#000000": the document holds "#000000" and the command names
\* theme.base and editor.background
C27_Witness ==
    /\ tlast.pass = "event"
    /\ tlast.ev.type = "MouseUp"
    /\ tlast.submitted = <<ResetSettingsFile("theme.base", "editor.background")>>
    /\ theme_docs[ThemeDocName("theme.base", "editor.background")] = "#000000"
    /\ theme_config.theme["editor.background"] = "#111111"
    /\ ~theme.mouse_down_rect.some

\* C28: on a page that has its inputs, a pointer-up outside the rectangle recorded
\* at the pointer-down, or with no rectangle recorded because the pointer-down hit
\* none, submits no command and leaves every document as it is; the record is
\* forgotten. (A page without inputs is built by the event, C20.)
C28_DragCancel ==
    /\ [][(IsThemeEvent("MouseDown") /\ RectsHit = {}) =>
            ~theme'.mouse_down_rect.some]_vars
    /\ [][(/\ IsThemeEvent("MouseUp")
            /\ theme.inputs # <<>>
            /\ \/ ~theme.mouse_down_rect.some
               \/ ~Contains(theme.mouse_down_rect.v.rect, tlast'.ev.pos)) =>
            /\ tlast'.submitted = <<>>
            /\ theme_docs' = theme_docs
            /\ ~theme'.mouse_down_rect.some]_vars

\* the pointer went down on the reset rectangle of editor.background and came up
\* outside it: nothing was submitted and the document is as the build left it
C28_Witness ==
    /\ tlast.pass = "event"
    /\ tlast.ev.type = "MouseUp"
    /\ tlast.ev.pos = <<400, 60>>
    /\ tlast.submitted = <<>>
    /\ \E k \in DOMAIN theme.changed_rects :
          /\ theme.changed_rects[k].key = KeyBackground
          /\ ~Contains(theme.changed_rects[k].rect, tlast.ev.pos)
    /\ theme_docs[ThemeDocName("theme.base", KeyBackground)] = "#111111"
    /\ ~theme.mouse_down_rect.some


\* the three cache slots of a row
TextCaches(self) == <<self.name_text, self.desc_text, self.value_text>>

\* C31: an update that sees a new configuration id leaves every row with its
\* name, description and value caches empty, and a layout pass that sees a new
\* width leaves no text built for the old width; an update with the same id and
\* a layout pass with the same width keep what the caches held; after every
\* layout pass the name and the description are cached for the width of the pass
C31_TextCaches ==
    [][\A i \in DOMAIN children :
          /\ Len(children') = Len(children)
          /\ last'.ev.type = "UpdateNewConfigId" =>
                TextCaches(children'[i]) = <<NoText, NoText, "None">>
          /\ last'.ev.type = "Update" =>
                TextCaches(children'[i]) = TextCaches(children[i])
          /\ last'.ev.type = "Layout" =>
                /\ children'[i].width = last'.ev.pos[1]
                /\ children'[i].name_text = TextLayout(last'.ev.pos[1] - TextInset)
                /\ children'[i].desc_text = TextLayout(DescMaxWidth(children'[i]))
                /\ children'[i].value_text # "None"
                /\ (children[i].width = last'.ev.pos[1] /\ children[i].name_text.some)
                      => children'[i].name_text = children[i].name_text
                /\ (children[i].width = last'.ev.pos[1] /\ children[i].desc_text.some)
                      => children'[i].desc_text = children[i].desc_text
                /\ (children[i].width = last'.ev.pos[1] /\ children[i].value_text # "None")
                      => children'[i].value_text = children[i].value_text]_vars

\* a row laid out at a second width, its name cached for that width
C31_Witness ==
    /\ children # <<>>
    /\ last.ev.type = "Layout"
    /\ last.ev.pos[1] = 600
    /\ children[1].name_text = TextLayout(600 - TextInset)
    /\ children[1].desc_text.some

\* a row whose edit waits for its timer: dirty, the armed timer pending
PendingCommit(i) ==
    /\ children[i].value_changed
    /\ children[i].last_idle_timer \in timers

\* C32: a pending commit survives a page switch: a dirty row's armed timer stays
\* pending, a step that changes the panel's active page leaves the rows, their
\* timers and their bursts as they were, and when the armed timer of a dirty row
\* fires, whichever page is active, the Editor page is among the children the
\* panel passes the event to, the one command submitted is the row's
\* update-settings-file command with its value, and the burst is closed by it
C32_PendingCommitSurvivesSwitch ==
    /\ [](\A i \in DOMAIN children : children[i].value_changed => PendingCommit(i))
    /\ [][/\ panel'.active # panel.active => UNCHANGED <<children, timers, burst>>
          /\ \A i \in DOMAIN children :
                (/\ plast'.ev.type = "Timer"
                 /\ PendingCommit(i)
                 /\ children[i].last_idle_timer \notin timers')
                    => /\ EditorPage \in plast'.delivered
                       /\ last'.ev.type = "Timer"
                       /\ last'.ev.token = children[i].last_idle_timer
                       /\ last'.emitted =
                             <<UpdateSettingsFile(children[i].kind, children[i].name,
                                                  children[i].value)>>
                       /\ children'[i].value = children[i].value
                       /\ ~children'[i].value_changed
                       /\ burst'[i].commits = 1]_vars

\* a timer that fired while another page was active has just committed a row
C32_Witness ==
    /\ plast.ev.type = "Timer"
    /\ plast.was # EditorPage
    /\ panel.active # EditorPage
    /\ last.ev.type = "Timer"
    /\ \E i \in DOMAIN children :
          /\ burst[i].commits = 1
          /\ last.ev.token = children[i].last_idle_timer
          /\ last.emitted = <<UpdateSettingsFile(children[i].kind, children[i].name,
                                                 children[i].value)>>

\* C33: a change of the configuration id on a built page does not rebuild it: the
\* rows stay, no InitChildren is requested and no build runs on any pass of a
\* built page; each row comes out of the change as it went in but for its text
\* caches, which are empty: its value (also when the new snapshot holds another
\* one), its dirty flag and its armed token are kept, and the pending timers too;
\* a row's value changes on a pointer press only
C33_ConfigChangeKeepsRows ==
    [][children # <<>> =>
          /\ ~last'.built
          /\ Len(children') = Len(children)
          /\ \A i \in DOMAIN children :
                children'[i].value # children[i].value => last'.ev.type = "MouseDown"
          /\ config'.id # config.id =>
                /\ children' = [i \in DOMAIN children |-> ClearTextLayoutCache(children[i])]
                /\ \A i \in DOMAIN children :
                      TextCaches(children'[i]) = <<NoText, NoText, "None">>
                /\ UNCHANGED <<timers, queue, value_docs, burst>>]_vars

\* the configuration has just changed under a built page: a dirty row with its
\* timer pending holds a value the new snapshot does not
C33_Witness ==
    /\ config.id > 0
    /\ last.ev.type = "UpdateNewConfigId"
    /\ \E i \in DOMAIN children :
          /\ PendingCommit(i)
          /\ children[i].value # config.editor[children[i].name]
          /\ TextCaches(children[i]) = <<NoText, NoText, "None">>

\* the first half of C34: every pointer-up leaves no press rectangle recorded and
\* every pointer-down leaves the rectangle it hit, or none when it hit none; a
\* pointer-up submits at most one reset, only for a rectangle recorded since the
\* last pointer-up, and a pointer-up that follows a pointer-up submits nothing
C34_PressRectangle ==
    /\ [][IsThemeEvent("MouseUp") =>
            /\ ~theme'.mouse_down_rect.some
            /\ Len(tlast'.submitted) <= 1
            /\ tlast'.submitted # <<>> => theme.mouse_down_rect.some
            /\ (tlast.pass = "event" /\ tlast.ev.type = "MouseUp") =>
                  tlast'.submitted = <<>>]_vars
    /\ [][IsThemeEvent("MouseDown") =>
            /\ theme'.mouse_down_rect.some <=> RectsHit # {}
            /\ theme'.mouse_down_rect.some =>
                  Contains(theme'.mouse_down_rect.v.rect, tlast'.ev.pos)
            /\ tlast'.submitted = <<>>]_vars

\* the second half of C34: a paint pass over a page with editors finds the label
\* layouts, one per editor, and does not fail
C34_PaintFindsLayouts ==
    [][(tlast'.pass = "paint" /\ theme.inputs # <<>>) =>
          /\ theme.text_layouts.some
          /\ Len(theme.text_layouts.v) = Len(theme.inputs)
          /\ ~tlast'.panicked]_vars

\* C34: the recorded press rectangle is cleared by every pointer-up and
\* overwritten by every pointer-down, so a press and its release submit at most one
\* reset and a pointer-up submits none for an earlier press; and whenever paint
\* runs on a page with editors the label layouts are there, one per editor, also
\* after an update that saw a new configuration id
C34_PressRectangleAndPaint ==
    /\ C34_PressRectangle
    /\ C34_PaintFindsLayouts

\* a paint pass that followed an update with a new configuration id, no layout
\* pass between them, has failed on the missing label layouts
C34_PaintAfterUpdate ==
    /\ tlast.pass = "paint"
    /\ tlast.panicked
    /\ theme.inputs # <<>>
    /\ ~theme.text_layouts.some
====
